---- MODULE Spec2Model ----
(***************************************************************************)
(* justpixels: the binary metadata strippers of lib/metadata-stripper.ts   *)
(* (stripJpegMetadata, stripPngMetadata, stripWebpMetadata) as state       *)
(* machines over byte buffers, and the orchestrator of                     *)
(* lib/image-processor.ts (processBatch, processImage) with its two        *)
(* re-encoding backends.  A buffer is a sequence of integers 0..255; the   *)
(* code's 0-based index k is element k + 1 of the sequence.                *)
(***************************************************************************)
EXTENDS Integers, Sequences, FiniteSets, TLC

VARIABLES
    fmt,      \* which stripper runs: "jpeg", "png" or "webp"
    data,     \* const data = new Uint8Array(buffer)
    pc,       \* position in the stripper: start, loop, scan, riff, done, error
    i,        \* let i: the cursor into data
    iter,     \* let iter: the iteration counter of the main loop
    output,   \* const output: number[]
    src,      \* for each byte of output, the index of data it was taken from
    maxRead,  \* the highest index of data read so far (-1: none)
    segs,     \* the segments/chunks the main loop has parsed, in order
    pass,     \* 1: stripping the source file, 2: stripping the first result
    first     \* the result of pass 1 (empty during pass 1)

VARIABLES
    files,       \* processBatch: the files argument
    options,     \* the ProcessingOptions argument
    supported,   \* typeof ImageDecoder !== "undefined" in this browser
    hasProgress, \* whether an onProgress callback was passed
    bpc,         \* position in processBatch: loop, await, returned (idle: not called)
    idx,         \* let i of processBatch's for loop
    results,     \* const results: ProcessedImage[]
    reports,     \* the calls made to onProgress, in order
    errors,      \* the console.error calls of the catch block, in order
    calls,       \* the indices processImage was called for, in order
    inFlight,    \* the indices whose processImage call has not settled
    outcomes,    \* how each processImage call settled, in order
    ppc,         \* position in processImage and in the backend it awaits
    loc,         \* processImage's locals
    ret,         \* the ProcessedImage processImage resolved with
    site,        \* where the running backend was called from: try or catch
    bk,          \* the locals of the running backend's process()
    stages,      \* the stages the current processImage call completed, in order
    attempts,    \* the backend calls of the current processImage call, settled
    acquired,    \* the decoder resources the current processImage call acquired
    open         \* the resources of acquired that have not been closed

VARIABLES
    pageFiles,        \* the home page's files state: the current selection
    processedImages,  \* the home page's processedImages state
    isProcessing,     \* the home page's isProcessing state
    pageMode,         \* the home page's mode state
    pageFormat,       \* the home page's format state
    pageQuality       \* the home page's quality state, in hundredths

stripVars == <<fmt, data, pc, i, iter, output, src, maxRead, segs, pass, first>>

inputVars == <<files, options, supported, hasProgress>>
loopVars == <<bpc, idx, results, reports, errors, calls>>
callVars == <<inFlight, outcomes, ppc, loc, ret, site, bk, stages, attempts, acquired, open>>
batchVars == <<inputVars, loopVars, callVars>>

choiceVars == <<pageMode, pageFormat, pageQuality>>
homeVars == <<pageFiles, processedImages, isProcessing, choiceVars>>

vars == <<stripVars, batchVars, homeVars>>

(***************************************************************************)
(* Bounds of the model.                                                    *)
(***************************************************************************)
MaxJpegPieces == 3
MaxPngChunks == 3
MaxWebpChunks == 3

(***************************************************************************)
(* Byte buffers.                                                           *)
(***************************************************************************)
\* data[k].  An element past the end is undefined in the code; pushed to
\* output it is stored as 0 by the Uint8Array the Blob is built from.
At(d, k) == IF k >= 0 /\ k < Len(d) THEN d[k + 1] ELSE 0

\* The bytes data[from], ..., data[to - 1] (what a copy loop pushes).
Slice(d, from, to) == [k \in 1..(to - from) |-> At(d, from + k - 1)]

\* The indices from, ..., to - 1 those bytes were taken from.
Indices(from, to) == [k \in 1..(to - from) |-> from + k - 1]

Max(a, b) == IF a >= b THEN a ELSE b
Min(a, b) == IF a <= b THEN a ELSE b

\* The highest index read when data[at], data[at + 1], ... are compared one
\* by one with the bytes of pat, stopping at the first that differs.
RECURSIVE MatchReads(_, _, _, _)
MatchReads(d, at, pat, k) ==
    IF k = Len(pat) - 1 \/ At(d, at + k) # pat[k + 1]
    THEN at + k
    ELSE MatchReads(d, at, pat, k + 1)

\* Whether data[at], ... equal the bytes of pat.
Matches(d, at, pat) == \A k \in 1..Len(pat) : At(d, at + k - 1) = pat[k]

(***************************************************************************)
(* JPEG                                                                    *)
(***************************************************************************)
JPEG_MARKERS ==
    [SOI |-> 216, EOI |-> 217, SOS |-> 218, DQT |-> 219, DHT |-> 196,
     DRI |-> 221, COM |-> 254, APP0 |-> 224, APP1 |-> 225, APP15 |-> 239,
     RST0 |-> 208, RST7 |-> 215, TEM |-> 1, SOF0 |-> 192, SOF15 |-> 207,
     DAC |-> 204]

isStandaloneMarker(marker) ==
    \/ (marker >= JPEG_MARKERS.RST0 /\ marker <= JPEG_MARKERS.RST7)
    \/ marker = JPEG_MARKERS.SOI
    \/ marker = JPEG_MARKERS.EOI
    \/ marker = JPEG_MARKERS.TEM

\* The APP0 test of shouldKeepJpegSegment: "JFIF\0" at offset + 4.
hasJfifSig(d, offset) ==
    /\ offset + 8 < Len(d)
    /\ At(d, offset + 4) = 74
    /\ At(d, offset + 5) = 70
    /\ At(d, offset + 6) = 73
    /\ At(d, offset + 7) = 70
    /\ At(d, offset + 8) = 0

\* The decision with comment segments on the keep side.
shouldKeepJpegSegmentKeepsCom(marker, d, offset) ==
    IF marker = JPEG_MARKERS.APP0 THEN hasJfifSig(d, offset)
    ELSE IF marker >= JPEG_MARKERS.APP1 /\ marker <= JPEG_MARKERS.APP15 THEN FALSE
    ELSE TRUE

shouldKeepJpegSegment(marker, d, offset) ==
    IF marker = JPEG_MARKERS.APP0 THEN hasJfifSig(d, offset)
    ELSE IF marker >= JPEG_MARKERS.APP1 /\ marker <= JPEG_MARKERS.APP15 THEN FALSE
    ELSE IF marker = JPEG_MARKERS.COM THEN FALSE
    ELSE IF marker \in {JPEG_MARKERS.DQT, JPEG_MARKERS.DHT,
                        JPEG_MARKERS.DRI, JPEG_MARKERS.SOS} THEN TRUE
    ELSE IF /\ marker >= JPEG_MARKERS.SOF0
            /\ marker <= JPEG_MARKERS.SOF15
            /\ marker # JPEG_MARKERS.DHT
            /\ marker # JPEG_MARKERS.DAC THEN TRUE
    ELSE TRUE

\* The highest index shouldKeepJpegSegment reads (&& stops at the first
\* conjunct that fails); -1 when it reads nothing.
shouldKeepReads(marker, d, offset) ==
    IF marker = JPEG_MARKERS.APP0 /\ offset + 8 < Len(d)
    THEN MatchReads(d, offset + 4, <<74, 70, 73, 70, 0>>, 0)
    ELSE -1

\* (data[i + 2] << 8) | data[i + 3]
segmentLength(d, at) == At(d, at + 2) * 256 + At(d, at + 3)

\* for (...; iter < maxIterations && i < data.length - 1; ...)
JpegLoopCond == iter < Len(data) /\ i < Len(data) - 1

JpegAtMarker == JpegLoopCond /\ At(data, i) = 255

\* A marker that carries a length field and is neither EOI nor padding.
JpegAtSegment ==
    /\ JpegAtMarker
    /\ At(data, i + 1) # JPEG_MARKERS.EOI
    /\ At(data, i + 1) # 255
    /\ ~isStandaloneMarker(At(data, i + 1))

\* The length test without the check against the end of the buffer.
segmentLengthInvalidNoOverrun(d, at) == segmentLength(d, at) < 2

\* if (segmentLength < 2 || i + 2 + segmentLength > data.length) break;
segmentLengthInvalid(d, at) ==
    IF segmentLength(d, at) < 2 THEN TRUE ELSE at + 2 + segmentLength(d, at) > Len(d)

JpegSegmentValid ==
    /\ JpegAtSegment
    /\ ~(i + 3 >= Len(data))
    /\ ~segmentLengthInvalid(data, i)

\* The scan step that breaks on FF D9 without pushing the D9.
JpegScanStepDropsEoiByte(d, at) ==
    IF At(d, at) = 255 /\ at + 1 < Len(d)
    THEN IF At(d, at + 1) = 0 THEN [n |-> 2, stop |-> FALSE]
         ELSE IF At(d, at + 1) = JPEG_MARKERS.EOI THEN [n |-> 1, stop |-> TRUE]
         ELSE [n |-> 1, stop |-> FALSE]
    ELSE [n |-> 1, stop |-> FALSE]

\* One iteration of the scan-data loop at index at: how many bytes it
\* pushes (data[at], and data[at + 1] for FF 00 and for FF D9) and whether
\* it breaks.
JpegScanStep(d, at) ==
    IF At(d, at) = 255 /\ at + 1 < Len(d)
    THEN IF At(d, at + 1) = 0 THEN [n |-> 2, stop |-> FALSE]
         ELSE IF At(d, at + 1) = JPEG_MARKERS.EOI THEN [n |-> 2, stop |-> TRUE]
         ELSE [n |-> 1, stop |-> FALSE]
    ELSE [n |-> 1, stop |-> FALSE]

JpegCheckSignature ==
    /\ fmt = "jpeg" /\ pc = "start"
    /\ IF Len(data) < 2 \/ At(data, 0) # 255 \/ At(data, 1) # JPEG_MARKERS.SOI
       THEN /\ pc' = "error"
            /\ UNCHANGED <<output, src>>
       ELSE /\ pc' = "loop"
            /\ output' = <<255, JPEG_MARKERS.SOI>>
            /\ src' = <<0, 1>>
    /\ maxRead' = IF Len(data) < 2 THEN -1
                  ELSE IF At(data, 0) # 255 THEN 0 ELSE 1
    /\ i' = 2
    /\ iter' = 0
    /\ UNCHANGED <<fmt, data, segs, pass, first>>
    /\ UNCHANGED <<batchVars, homeVars>>

\* if (data[i] !== 0xff) { i++; continue; }
JpegSkipByte ==
    /\ fmt = "jpeg" /\ pc = "loop"
    /\ JpegLoopCond /\ At(data, i) # 255
    /\ i' = i + 1
    /\ iter' = iter + 1
    /\ maxRead' = Max(maxRead, i)
    /\ UNCHANGED <<fmt, data, pc, output, src, segs, pass, first>>
    /\ UNCHANGED <<batchVars, homeVars>>

\* if (marker === EOI) { output.push(0xff, EOI); break; }
JpegEndOfImage ==
    /\ fmt = "jpeg" /\ pc = "loop"
    /\ JpegAtMarker /\ At(data, i + 1) = JPEG_MARKERS.EOI
    /\ output' = output \o <<255, JPEG_MARKERS.EOI>>
    /\ src' = src \o Indices(i, i + 2)
    /\ segs' = Append(segs, [kind |-> "eoi", marker |-> JPEG_MARKERS.EOI, at |-> i,
                             end |-> i + 2, kept |-> TRUE, outAt |-> Len(output)])
    /\ maxRead' = Max(maxRead, i + 1)
    /\ pc' = "done"
    /\ UNCHANGED <<fmt, data, i, iter, pass, first>>
    /\ UNCHANGED <<batchVars, homeVars>>

\* if (marker === 0xff) { i++; continue; }
JpegSkipPadding ==
    /\ fmt = "jpeg" /\ pc = "loop"
    /\ JpegAtMarker /\ At(data, i + 1) = 255
    /\ i' = i + 1
    /\ iter' = iter + 1
    /\ maxRead' = Max(maxRead, i + 1)
    /\ UNCHANGED <<fmt, data, pc, output, src, segs, pass, first>>
    /\ UNCHANGED <<batchVars, homeVars>>

\* if (isStandaloneMarker(marker)) { output.push(0xff, marker); i += 2; continue; }
JpegStandalone ==
    /\ fmt = "jpeg" /\ pc = "loop"
    /\ JpegAtMarker
    /\ At(data, i + 1) # JPEG_MARKERS.EOI /\ At(data, i + 1) # 255
    /\ isStandaloneMarker(At(data, i + 1))
    /\ output' = output \o <<255, At(data, i + 1)>>
    /\ src' = src \o Indices(i, i + 2)
    /\ segs' = Append(segs, [kind |-> "standalone", marker |-> At(data, i + 1), at |-> i,
                             end |-> i + 2, kept |-> TRUE, outAt |-> Len(output)])
    /\ i' = i + 2
    /\ iter' = iter + 1
    /\ maxRead' = Max(maxRead, i + 1)
    /\ UNCHANGED <<fmt, data, pc, pass, first>>
    /\ UNCHANGED <<batchVars, homeVars>>

\* if (i + 3 >= data.length) break;
JpegTruncated ==
    /\ fmt = "jpeg" /\ pc = "loop"
    /\ JpegAtSegment /\ i + 3 >= Len(data)
    /\ maxRead' = Max(maxRead, i + 1)
    /\ pc' = "done"
    /\ UNCHANGED <<fmt, data, i, iter, output, src, segs, pass, first>>
    /\ UNCHANGED <<batchVars, homeVars>>

\* if (segmentLength < 2 || i + 2 + segmentLength > data.length) break;
JpegInvalidLength ==
    /\ fmt = "jpeg" /\ pc = "loop"
    /\ JpegAtSegment /\ ~(i + 3 >= Len(data))
    /\ segmentLengthInvalid(data, i)
    /\ maxRead' = Max(maxRead, i + 3)
    /\ pc' = "done"
    /\ UNCHANGED <<fmt, data, i, iter, output, src, segs, pass, first>>
    /\ UNCHANGED <<batchVars, homeVars>>

\* The copy of a parsed segment when shouldKeepJpegSegment says so, and
\* the record of the decision.
JpegCopySegment(kind) ==
    LET marker == At(data, i + 1)
        len    == segmentLength(data, i)
        keep   == shouldKeepJpegSegment(marker, data, i)
    IN  /\ output' = IF keep THEN output \o Slice(data, i, i + len + 2) ELSE output
        /\ src' = IF keep THEN src \o Indices(i, i + len + 2) ELSE src
        /\ segs' = Append(segs, [kind |-> kind, marker |-> marker, at |-> i,
                                 end |-> i + 2 + len, kept |-> keep,
                                 outAt |-> Len(output)])
        /\ maxRead' = Max(Max(maxRead, i + 3),
                          Max(shouldKeepReads(marker, data, i),
                              IF keep THEN i + len + 1 ELSE -1))

\* A length-prefixed segment other than SOS: kept or dropped, i += 2 + segmentLength.
JpegSegment ==
    /\ fmt = "jpeg" /\ pc = "loop"
    /\ JpegSegmentValid /\ At(data, i + 1) # JPEG_MARKERS.SOS
    /\ JpegCopySegment("segment")
    /\ i' = i + 2 + segmentLength(data, i)
    /\ iter' = iter + 1
    /\ UNCHANGED <<fmt, data, pc, pass, first>>
    /\ UNCHANGED <<batchVars, homeVars>>

\* if (marker === SOS) { i += 2 + segmentLength; while (...) ... }
JpegStartOfScan ==
    /\ fmt = "jpeg" /\ pc = "loop"
    /\ JpegSegmentValid /\ At(data, i + 1) = JPEG_MARKERS.SOS
    /\ JpegCopySegment("sos")
    /\ i' = i + 2 + segmentLength(data, i)
    /\ pc' = "scan"
    /\ UNCHANGED <<fmt, data, iter, pass, first>>
    /\ UNCHANGED <<batchVars, homeVars>>

\* One iteration of while (i < data.length) { output.push(data[i]); ... i++; }
JpegScan ==
    /\ fmt = "jpeg" /\ pc = "scan"
    /\ i < Len(data)
    /\ LET step == JpegScanStep(data, i)
       IN  /\ output' = output \o Slice(data, i, i + step.n)
           /\ src' = src \o Indices(i, i + step.n)
           /\ i' = i + step.n
           /\ pc' = IF step.stop THEN "done" ELSE "scan"
    /\ maxRead' = Max(maxRead, IF At(data, i) = 255 /\ i + 1 < Len(data)
                               THEN i + 1 ELSE i)
    /\ UNCHANGED <<fmt, data, iter, segs, pass, first>>
    /\ UNCHANGED <<batchVars, homeVars>>

\* The scan loop ran off the end of the data: break, return.
JpegScanExhausted ==
    /\ fmt = "jpeg" /\ pc = "scan"
    /\ ~(i < Len(data))
    /\ pc' = "done"
    /\ UNCHANGED <<fmt, data, i, iter, output, src, maxRead, segs, pass, first>>
    /\ UNCHANGED <<batchVars, homeVars>>

\* The main loop's condition fails: return new Blob(output).
JpegLoopExit ==
    /\ fmt = "jpeg" /\ pc = "loop"
    /\ ~JpegLoopCond
    /\ pc' = "done"
    /\ UNCHANGED <<fmt, data, i, iter, output, src, maxRead, segs, pass, first>>
    /\ UNCHANGED <<batchVars, homeVars>>

\* The returned Blob is stripped again (strip(strip(x))).
JpegStripAgain ==
    /\ fmt = "jpeg" /\ pc = "done" /\ pass = 1
    /\ pass' = 2
    /\ first' = output
    /\ data' = output
    /\ pc' = "start"
    /\ i' = 0
    /\ iter' = 0
    /\ output' = <<>>
    /\ src' = <<>>
    /\ maxRead' = -1
    /\ segs' = <<>>
    /\ UNCHANGED fmt
    /\ UNCHANGED <<batchVars, homeVars>>

NextJpeg ==
    \/ JpegCheckSignature
    \/ JpegSkipByte
    \/ JpegEndOfImage
    \/ JpegSkipPadding
    \/ JpegStandalone
    \/ JpegTruncated
    \/ JpegInvalidLength
    \/ JpegSegment
    \/ JpegStartOfScan
    \/ JpegScan
    \/ JpegScanExhausted
    \/ JpegLoopExit
    \/ JpegStripAgain

(***************************************************************************)
(* PNG                                                                     *)
(***************************************************************************)
\* Chunk types are the four character codes String.fromCharCode is given.
PNG_CHUNKS ==
    [CRITICAL |-> { <<73, 72, 68, 82>>,      \* "IHDR"
                    <<80, 76, 84, 69>>,      \* "PLTE"
                    <<73, 68, 65, 84>>,      \* "IDAT"
                    <<73, 69, 78, 68>> },    \* "IEND"
     TRANSPARENCY |-> <<116, 82, 78, 83>>]   \* "tRNS"

PNG_SIGNATURE == <<137, 80, 78, 71, 13, 10, 26, 10>>

\* An allow-list without the transparency chunk.
allowedChunksCriticalOnly == PNG_CHUNKS.CRITICAL

\* const allowedChunks = new Set([...PNG_CHUNKS.CRITICAL, PNG_CHUNKS.TRANSPARENCY])
allowedChunks == PNG_CHUNKS.CRITICAL \cup {PNG_CHUNKS.TRANSPARENCY}

\* ((data[i] << 24) | (data[i+1] << 16) | (data[i+2] << 8) | data[i+3]) >>> 0
\* (an unsigned 32-bit value; used here only when it is below 2^31, that is
\* when the first byte is below 128)
pngLength(d, at) ==
    At(d, at) * 16777216 + At(d, at + 1) * 65536 + At(d, at + 2) * 256 + At(d, at + 3)

\* String.fromCharCode(data[i + 4], ..., data[i + 7])
pngType(d, at) == Slice(d, at + 4, at + 8)

\* Math.ceil(n / k) for n >= 0
CeilDiv(n, k) == (n + k - 1) \div k

\* A loop whose iteration cap is half as large.
PngLoopCondHalfCap == iter < CeilDiv(Len(data), 24) /\ i + 12 <= Len(data)

\* for (...; iter < maxIterations && i + 12 <= data.length; ...)
PngLoopCond == iter < CeilDiv(Len(data), 12) /\ i + 12 <= Len(data)

\* The length test that forgets the 4 CRC bytes (i + 8 + length > data.length).
pngChunkInvalidIgnoresCrc(d, at) ==
    IF At(d, at) >= 128 THEN TRUE ELSE pngLength(d, at) > Len(d) - at - 8

\* if (length > 0x7fffffff || i + 12 + length > data.length) break;
\* length > 0x7fffffff exactly when its first byte is 128 or more.
pngChunkInvalid(d, at) ==
    IF At(d, at) >= 128 THEN TRUE ELSE pngLength(d, at) > Len(d) - at - 12

PngCheckSignature ==
    /\ fmt = "png" /\ pc = "start"
    /\ IF Len(data) < 8 \/ ~Matches(data, 0, PNG_SIGNATURE)
       THEN /\ pc' = "error"
            /\ UNCHANGED <<output, src>>
       ELSE /\ pc' = "loop"
            /\ output' = PNG_SIGNATURE
            /\ src' = Indices(0, 8)
    /\ maxRead' = IF Len(data) < 8 THEN -1 ELSE MatchReads(data, 0, PNG_SIGNATURE, 0)
    /\ i' = 8
    /\ iter' = 0
    /\ UNCHANGED <<fmt, data, segs, pass, first>>
    /\ UNCHANGED <<batchVars, homeVars>>

PngInvalidChunk ==
    /\ fmt = "png" /\ pc = "loop"
    /\ PngLoopCond /\ pngChunkInvalid(data, i)
    /\ maxRead' = Max(maxRead, i + 3)
    /\ pc' = "done"
    /\ UNCHANGED <<fmt, data, i, iter, output, src, segs, pass, first>>
    /\ UNCHANGED <<batchVars, homeVars>>

\* if (allowedChunks.has(type)) copy chunkSize bytes; i += chunkSize;
PngCopyChunk ==
    LET type      == pngType(data, i)
        chunkSize == 12 + pngLength(data, i)
        keep      == type \in allowedChunks
    IN  /\ output' = IF keep THEN output \o Slice(data, i, i + chunkSize) ELSE output
        /\ src' = IF keep THEN src \o Indices(i, i + chunkSize) ELSE src
        /\ segs' = Append(segs, [kind |-> "chunk", marker |-> type, at |-> i,
                                 end |-> i + chunkSize, kept |-> keep,
                                 outAt |-> Len(output)])
        /\ maxRead' = Max(maxRead, IF keep THEN i + chunkSize - 1 ELSE i + 7)
        /\ i' = i + chunkSize

PngChunk ==
    /\ fmt = "png" /\ pc = "loop"
    /\ PngLoopCond /\ ~pngChunkInvalid(data, i)
    /\ pngType(data, i) # <<73, 69, 78, 68>>
    /\ PngCopyChunk
    /\ iter' = iter + 1
    /\ UNCHANGED <<fmt, data, pc, pass, first>>
    /\ UNCHANGED <<batchVars, homeVars>>

\* if (type === "IEND") break;
PngEndChunk ==
    /\ fmt = "png" /\ pc = "loop"
    /\ PngLoopCond /\ ~pngChunkInvalid(data, i)
    /\ pngType(data, i) = <<73, 69, 78, 68>>
    /\ PngCopyChunk
    /\ pc' = "done"
    /\ UNCHANGED <<fmt, data, iter, pass, first>>
    /\ UNCHANGED <<batchVars, homeVars>>

PngLoopExit ==
    /\ fmt = "png" /\ pc = "loop"
    /\ ~PngLoopCond
    /\ pc' = "done"
    /\ UNCHANGED <<fmt, data, i, iter, output, src, maxRead, segs, pass, first>>
    /\ UNCHANGED <<batchVars, homeVars>>

NextPng ==
    \/ PngCheckSignature
    \/ PngInvalidChunk
    \/ PngChunk
    \/ PngEndChunk
    \/ PngLoopExit

(***************************************************************************)
(* WebP                                                                    *)
(***************************************************************************)
\* The keep-list with the EXIF chunk let through.
WebpKeepChunksWithExif ==
    { <<86, 80, 56, 32>>, <<86, 80, 56, 76>>, <<86, 80, 56, 88>>, <<65, 78, 73, 77>>,
      <<65, 78, 77, 70>>, <<65, 76, 80, 72>>, <<69, 88, 73, 70>> }

WEBP_KEEP_CHUNKS ==
    { <<86, 80, 56, 32>>,      \* "VP8 "
      <<86, 80, 56, 76>>,      \* "VP8L"
      <<86, 80, 56, 88>>,      \* "VP8X"
      <<65, 78, 73, 77>>,      \* "ANIM"
      <<65, 78, 77, 70>>,      \* "ANMF"
      <<65, 76, 80, 72>> }     \* "ALPH"

isRiff(d) == Matches(d, 0, <<82, 73, 70, 70>>)
\* The "WEBP" test cut to its first three bytes.
isWebpThreeBytes(d) == Matches(d, 8, <<87, 69, 66>>)
isWebp(d) == Matches(d, 8, <<87, 69, 66, 80>>)

\* String.fromCharCode(data[i], ..., data[i + 3])
webpChunkId(d, at) == Slice(d, at, at + 4)

\* (data[i+4] | (data[i+5] << 8) | (data[i+6] << 16) | (data[i+7] << 24)) >>> 0
\* (an unsigned 32-bit value; used here only when it is below 2^31)
webpChunkSize(d, at) ==
    At(d, at + 4) + At(d, at + 5) * 256 + At(d, at + 6) * 65536 + At(d, at + 7) * 16777216

\* if (chunkSize > data.length - i - 8) break;
\* A size of 2^31 or more (last byte 128 or more) exceeds every buffer length.
webpChunkTruncated(d, at) ==
    IF At(d, at + 7) >= 128 THEN TRUE ELSE webpChunkSize(d, at) > Len(d) - at - 8

\* const totalSize = 8 + chunkSize + (chunkSize % 2)
webpTotalSize(chunkSize) == 8 + chunkSize + (chunkSize % 2)

\* endPos without the clamp to data.length.
webpEndPosUnclamped(d, at, totalSize) == at + totalSize

\* const endPos = Math.min(i + totalSize, data.length)
webpEndPos(d, at, totalSize) == Min(at + totalSize, Len(d))

\* The size field written from output.length instead of output.length - 8.
riffSizeBytesOfLength(fileSize) ==
    << (fileSize + 8) % 256, ((fileSize + 8) \div 256) % 256,
       ((fileSize + 8) \div 65536) % 256, ((fileSize + 8) \div 16777216) % 256 >>

\* The four bytes written to output[4..7]: fileSize & 0xff, (fileSize >> 8) & 0xff, ...
riffSizeBytes(fileSize) ==
    << fileSize % 256, (fileSize \div 256) % 256,
       (fileSize \div 65536) % 256, (fileSize \div 16777216) % 256 >>

\* for (...; iter < maxIterations && i + 8 <= data.length; ...)
WebpLoopCond == iter < CeilDiv(Len(data), 8) /\ i + 8 <= Len(data)

WebpCheckSignature ==
    /\ fmt = "webp" /\ pc = "start"
    /\ IF Len(data) < 12 \/ ~isRiff(data) \/ ~isWebp(data)
       THEN /\ pc' = "error"
            /\ UNCHANGED <<output, src>>
       ELSE /\ pc' = "loop"
            /\ output' = Slice(data, 0, 12)
            /\ src' = Indices(0, 12)
    /\ maxRead' = IF Len(data) < 12 THEN -1
                  ELSE IF isRiff(data) /\ isWebp(data) THEN 11
                  ELSE MatchReads(data, 8, <<87, 69, 66, 80>>, 0)
    /\ i' = 12
    /\ iter' = 0
    /\ UNCHANGED <<fmt, data, segs, pass, first>>
    /\ UNCHANGED <<batchVars, homeVars>>

\* if (chunkSize > data.length - i - 8) break;
WebpTruncatedChunk ==
    /\ fmt = "webp" /\ pc = "loop"
    /\ WebpLoopCond /\ webpChunkTruncated(data, i)
    /\ maxRead' = Max(maxRead, i + 7)
    /\ pc' = "riff"
    /\ UNCHANGED <<fmt, data, i, iter, output, src, segs, pass, first>>
    /\ UNCHANGED <<batchVars, homeVars>>

\* if (WEBP_KEEP_CHUNKS.has(chunkId)) copy data[i .. endPos - 1]; i += totalSize;
WebpChunk ==
    /\ fmt = "webp" /\ pc = "loop"
    /\ WebpLoopCond /\ ~webpChunkTruncated(data, i)
    /\ LET chunkId   == webpChunkId(data, i)
           totalSize == webpTotalSize(webpChunkSize(data, i))
           endPos    == webpEndPos(data, i, totalSize)
           keep      == chunkId \in WEBP_KEEP_CHUNKS
       IN  /\ output' = IF keep THEN output \o Slice(data, i, endPos) ELSE output
           /\ src' = IF keep THEN src \o Indices(i, endPos) ELSE src
           /\ segs' = Append(segs, [kind |-> "chunk", marker |-> chunkId, at |-> i,
                                    end |-> i + totalSize, kept |-> keep,
                                    outAt |-> Len(output)])
           /\ maxRead' = Max(maxRead, IF keep THEN endPos - 1 ELSE i + 7)
           /\ i' = i + totalSize
    /\ iter' = iter + 1
    /\ UNCHANGED <<fmt, data, pc, pass, first>>
    /\ UNCHANGED <<batchVars, homeVars>>

WebpLoopExit ==
    /\ fmt = "webp" /\ pc = "loop"
    /\ ~WebpLoopCond
    /\ pc' = "riff"
    /\ UNCHANGED <<fmt, data, i, iter, output, src, maxRead, segs, pass, first>>
    /\ UNCHANGED <<batchVars, homeVars>>

\* output[4..7] = fileSize (little-endian), fileSize = output.length - 8; return.
WebpFixRiffSize ==
    /\ fmt = "webp" /\ pc = "riff"
    /\ LET size == riffSizeBytes(Len(output) - 8)
       IN  /\ output' = [k \in 1..Len(output) |->
                            IF k \in 5..8 THEN size[k - 4] ELSE output[k]]
           /\ src' = [k \in 1..Len(src) |-> IF k \in 5..8 THEN -1 ELSE src[k]]
    /\ pc' = "done"
    /\ UNCHANGED <<fmt, data, i, iter, maxRead, segs, pass, first>>
    /\ UNCHANGED <<batchVars, homeVars>>

NextWebp ==
    \/ WebpCheckSignature
    \/ WebpTruncatedChunk
    \/ WebpChunk
    \/ WebpLoopExit
    \/ WebpFixRiffSize

(***************************************************************************)
(* Input buffers: a header followed by up to a bounded number of pieces.   *)
(***************************************************************************)
RECURSIVE Bodies(_, _)
Bodies(pieces, n) ==
    IF n = 0 THEN {<<>>}
    ELSE LET shorter == Bodies(pieces, n - 1)
         IN  shorter \cup {b \o p : b \in shorter, p \in pieces}

JpegPieces ==
    { <<255>>, <<0>>, <<1>>,
      <<255, 217>>,                 \* EOI
      <<255, 208>>,                 \* RST0
      <<255, 224, 0, 2>>,           \* APP0 without payload
      <<255, 224, 0, 7>>,           \* APP0 header announcing 5 payload bytes
      <<74, 70, 73, 70, 0>>,        \* "JFIF\0"
      <<255, 225, 0, 3, 42>>,       \* APP1
      <<255, 254, 0, 2>>,           \* COM
      <<255, 219, 0, 3, 17>>,       \* DQT
      <<255, 219, 0>>,              \* DQT cut inside its length field
      <<255, 218, 0, 2>> }          \* SOS

\* SOI, JFIF APP0, APP1, COM, DQT, SOS, scan data with a stuffed FF and a
\* restart marker, EOI.
JpegWellFormed ==
    <<255, 216>> \o <<255, 224, 0, 7, 74, 70, 73, 70, 0>> \o <<255, 225, 0, 3, 42>>
                 \o <<255, 254, 0, 2>> \o <<255, 219, 0, 3, 17>> \o <<255, 218, 0, 2>>
                 \o <<17, 255, 0, 18, 255, 208, 19>> \o <<255, 217>>

\* n payload bytes 1, 2, 3, ...
Payload(n) == [k \in 1..n |-> k % 256]

\* A marker, its two-byte length (payload + 2) and the payload.
JpegSegmentOf(marker, payload) ==
    <<255, marker, (Len(payload) + 2) \div 256, (Len(payload) + 2) % 256>> \o payload

\* A file of 1020 bytes: SOI, JFIF APP0, APP1 (200 bytes in all), DQT,
\* COM (50 bytes in all), DHT, SOF0, DRI, a JPG0 segment, SOS, scan data
\* with a stuffed FF and a restart marker, EOI.
JpegLarge ==
    <<255, 216>> \o JpegSegmentOf(224, <<74, 70, 73, 70, 0>> \o Payload(9))
                 \o JpegSegmentOf(225, Payload(196))
                 \o JpegSegmentOf(219, Payload(130))
                 \o JpegSegmentOf(254, Payload(46))
                 \o JpegSegmentOf(196, Payload(416))
                 \o JpegSegmentOf(192, Payload(15))
                 \o JpegSegmentOf(221, Payload(2))
                 \o JpegSegmentOf(240, Payload(6))
                 \o JpegSegmentOf(218, Payload(10))
                 \o Payload(140) \o <<255, 0, 255, 208, 7>> \o <<255, 217>>

\* A file with nothing to remove: SOI, JFIF APP0, DQT, SOF0, DHT, SOS, scan
\* data with a stuffed FF and a restart marker, EOI.
JpegClean ==
    <<255, 216>> \o JpegSegmentOf(224, <<74, 70, 73, 70, 0>> \o Payload(9))
                 \o JpegSegmentOf(219, Payload(3))
                 \o JpegSegmentOf(192, Payload(4))
                 \o JpegSegmentOf(196, Payload(5))
                 \o JpegSegmentOf(218, Payload(2))
                 \o <<17, 255, 0, 18, 255, 208, 19>> \o <<255, 217>>

JpegScenarios ==
    { JpegWellFormed, JpegLarge, JpegClean,
      \* bytes after the end-of-image marker
      JpegWellFormed \o <<99, 255, 217>>,
      \* two scans with a COM segment between them
      <<255, 216>> \o <<255, 219, 0, 3, 17>> \o <<255, 218, 0, 2>> \o <<17>>
                   \o <<255, 254, 0, 3, 65>> \o <<255, 218, 0, 2>> \o <<18>> \o <<255, 217>>,
      \* FF FF D9 in the scan data, and a byte after it
      <<255, 216>> \o <<255, 218, 0, 2>> \o <<17, 255, 255, 217, 5>>,
      \* a stuffed FF followed by D9, no end-of-image, a lone FF at the end
      <<255, 216>> \o <<255, 218, 0, 2>> \o <<17, 255, 0, 217, 255>> }

JpegInputs ==
    {<<255, 216>> \o b : b \in Bodies(JpegPieces, MaxJpegPieces)}
    \cup JpegScenarios
    \cup {h \o b : h \in {<<>>, <<255>>, <<216>>, <<255, 217>>, <<216, 255>>, <<0, 216>>},
                   b \in Bodies(JpegPieces, 1)}

U32BE(n) ==
    <<(n \div 16777216) % 256, (n \div 65536) % 256, (n \div 256) % 256, n % 256>>
U32LE(n) ==
    <<n % 256, (n \div 256) % 256, (n \div 65536) % 256, (n \div 16777216) % 256>>

\* A PNG chunk: length, type, data, CRC.
PngChunkOf(type, payload) ==
    U32BE(Len(payload)) \o type \o payload \o <<201, 202, 203, 204>>

PngPieces ==
    { PngChunkOf(<<73, 72, 68, 82>>, <<8>>),            \* IHDR
      PngChunkOf(<<80, 76, 84, 69>>, <<>>),             \* PLTE
      PngChunkOf(<<73, 68, 65, 84>>, <<5, 6>>),         \* IDAT
      PngChunkOf(<<73, 69, 78, 68>>, <<>>),             \* IEND
      PngChunkOf(<<116, 82, 78, 83>>, <<9>>),           \* tRNS
      PngChunkOf(<<116, 69, 88, 116>>, <<7>>),          \* tEXt
      PngChunkOf(<<101, 88, 73, 102>>, <<>>),           \* eXIf
      <<0, 0, 0>>,                                      \* a cut chunk frame
      <<0, 0, 0, 9, 73, 68, 65, 84, 201, 202, 203, 204>>,    \* IDAT, length 9, no data
      <<128, 0, 0, 0, 73, 68, 65, 84, 201, 202, 203, 204>> } \* IDAT, length 2^31

\* IHDR, a tEXt chunk of 120 bytes in all, IDAT, IEND.
PngScenario ==
    PNG_SIGNATURE \o PngChunkOf(<<73, 72, 68, 82>>, Payload(13))
                  \o PngChunkOf(<<116, 69, 88, 116>>, Payload(108))
                  \o PngChunkOf(<<73, 68, 65, 84>>, Payload(10))
                  \o PngChunkOf(<<73, 69, 78, 68>>, <<>>)

PngInputs ==
    {PNG_SIGNATURE \o b : b \in Bodies(PngPieces, MaxPngChunks)}
    \cup {PngScenario}
    \cup {h \o b : h \in {<<>>, SubSeq(PNG_SIGNATURE, 1, 7),
                          <<137, 80, 78, 71, 13, 10, 26, 11>>,
                          <<136, 80, 78, 71, 13, 10, 26, 10>>},
                   b \in Bodies(PngPieces, 1)}

\* A RIFF chunk: id, size, data, and the pad byte when asked for.
WebpChunkOf(id, payload, pad) ==
    id \o U32LE(Len(payload)) \o payload \o (IF pad THEN <<0>> ELSE <<>>)

WebpPieces ==
    { WebpChunkOf(<<86, 80, 56, 32>>, <<1, 2>>, FALSE),   \* "VP8 "
      WebpChunkOf(<<86, 80, 56, 76>>, <<3>>, TRUE),       \* "VP8L", odd size, padded
      WebpChunkOf(<<86, 80, 56, 76>>, <<3>>, FALSE),      \* "VP8L", odd size, pad missing
      WebpChunkOf(<<86, 80, 56, 88>>, <<>>, FALSE),       \* "VP8X"
      WebpChunkOf(<<65, 78, 73, 77>>, <<>>, FALSE),       \* "ANIM"
      WebpChunkOf(<<65, 78, 77, 70>>, <<>>, FALSE),       \* "ANMF"
      WebpChunkOf(<<65, 76, 80, 72>>, <<4, 5>>, FALSE),   \* "ALPH"
      WebpChunkOf(<<69, 88, 73, 70>>, <<6, 7>>, FALSE),   \* "EXIF"
      WebpChunkOf(<<88, 77, 80, 32>>, <<8>>, TRUE),       \* "XMP ", odd size, padded
      WebpChunkOf(<<73, 67, 67, 80>>, <<>>, FALSE),       \* "ICCP"
      <<86, 80, 56>>,                                     \* a cut chunk header
      <<86, 80, 56, 32, 9, 0, 0, 0>>,                     \* "VP8 ", size 9, no data
      <<86, 80, 56, 32, 0, 0, 0, 128>> }                  \* "VP8 ", size 2^31

\* "RIFF", a size field (the right one, len - 8, or 0), "WEBP", the chunks.
WebpFileOf(body, rightSize) ==
    <<82, 73, 70, 70>> \o (IF rightSize THEN U32LE(Len(body) + 4) ELSE <<0, 0, 0, 0>>)
                       \o <<87, 69, 66, 80>> \o body

\* An EXIF chunk followed by a "VP8 " chunk of 300 bytes.
WebpLarge ==
    WebpFileOf(WebpChunkOf(<<69, 88, 73, 70>>, Payload(10), FALSE)
               \o WebpChunkOf(<<86, 80, 56, 32>>, Payload(300), FALSE), TRUE)

WebpInputs ==
    {WebpFileOf(b, r) : b \in Bodies(WebpPieces, MaxWebpChunks), r \in BOOLEAN}
    \cup {WebpLarge}
    \cup {h \o b : h \in {<<>>, <<82, 73, 70, 70, 4, 0, 0, 0, 87, 69, 66>>,
                          <<82, 73, 70, 88, 4, 0, 0, 0, 87, 69, 66, 80>>,
                          <<82, 73, 70, 70, 4, 0, 0, 0, 87, 69, 66, 81>>,
                          <<83, 73, 70, 70, 4, 0, 0, 0, 86, 69, 66, 80>>},
                   b \in Bodies(WebpPieces, 1)}

InputsOf(f) ==
    IF f = "jpeg" THEN JpegInputs ELSE IF f = "png" THEN PngInputs ELSE WebpInputs

(***************************************************************************)
(* Orchestrator: the values processBatch and processImage work on.         *)
(***************************************************************************)
\* The longest list of files handed to processBatch.
MaxFiles == 2

\* The longest list of files processed when the options range over every
\* ProcessingOptions value.
MaxOptionFiles == 1

\* The longest selection of files in the home page.
MaxSelection == 2

\* A Blob: the bytes made for file number of (0-based) by the file itself,
\* a stripper or a backend, and its MIME type.
Blob(of, by, type) == [of |-> of, by |-> by, type |-> type]
NoBlob == Blob(-1, "none", "none")

\* The bytes of a blob, named by the file they come from (the files of
\* FileSet differ in their names, so the name stands for the content: the
\* same file twice in a list gives the same bytes) and by what made them: a
\* stripper that finds nothing to remove in a file returns the bytes of the
\* file.
BytesOf(blob) ==
    IF /\ blob.by \in {"stripJpegMetadata", "stripPngMetadata", "stripWebpMetadata"}
       /\ files[blob.of + 1].clean
    THEN [of |-> files[blob.of + 1].name, by |-> "file"]
    ELSE [of |-> files[blob.of + 1].name, by |-> blob.by]

\* generateHash(blob): the SHA-256 digest of the blob's bytes.
generateHash(blob) == [alg |-> "SHA-256", of |-> BytesOf(blob)]
NoHash == [alg |-> "none", of |-> [of |-> <<>>, by |-> "none"]]

\* let processedBlob, width, height; const originalHash, processedHash
NoLocals ==
    [originalHash |-> NoHash, processedBlob |-> NoBlob, width |-> 0, height |-> 0,
     processedHash |-> NoHash]

\* No call of canvas.convertToBlob / canvas.toBlob.
NoRequest == [type |-> "none", quality |-> 0]

\* The locals of a backend's process(): width, height, blob, whether a
\* VideoFrame was assigned to frame, how the try block was left, and the
\* arguments encodeToBlob handed to the canvas encoder.
NoBackend ==
    [width |-> 0, height |-> 0, blob |-> NoBlob, frame |-> FALSE, pending |-> "none",
     request |-> NoRequest]

\* No ProcessedImage (a pending or rejected promise).
NoImage ==
    [originalFile |-> -1, processedBlob |-> NoBlob, fileName |-> <<>>,
     originalHash |-> NoHash, processedHash |-> NoHash, width |-> 0, height |-> 0,
     verificationResult |-> [hasMetadata |-> TRUE, metadataFound |-> <<>>, isClean |-> FALSE]]

\* The files of the model: a name (one character per element), the declared
\* MIME type, the size createImageBitmap reports for the file and for its
\* stripped bytes (an EXIF orientation is applied to the first and gone from
\* the second), the sizes of the frames ImageDecoder reports, and whether
\* the file holds nothing a stripper removes.
FileSet ==
    { [name |-> <<"a", ".", "J", "P", "G">>, type |-> "image/jpeg",
       bitmap |-> <<50, 100>>, stripped |-> <<100, 50>>, frames |-> << <<100, 50>> >>,
       clean |-> FALSE],
      [name |-> <<"b", ".", "j", "p", "g">>, type |-> "image/jpg",
       bitmap |-> <<2, 3>>, stripped |-> <<2, 3>>, frames |-> << <<2, 3>> >>,
       clean |-> TRUE],
      [name |-> <<"c">>, type |-> "image/png",
       bitmap |-> <<4, 4>>, stripped |-> <<4, 4>>, frames |-> << <<4, 4>> >>,
       clean |-> TRUE],
      [name |-> <<"d", ".", "x", ".", "w", "e", "b", "p">>, type |-> "image/webp",
       bitmap |-> <<6, 5>>, stripped |-> <<6, 5>>, frames |-> << <<6, 5>>, <<7, 7>> >>,
       clean |-> FALSE],
      [name |-> <<".", "g", "i", "f">>, type |-> "image/gif",
       bitmap |-> <<8, 9>>, stripped |-> <<8, 9>>, frames |-> << <<8, 9>>, <<1, 1>> >>,
       clean |-> FALSE] }

\* Lists of at most n files.
RECURSIVE FileLists(_)
FileLists(n) ==
    IF n = 0 THEN {<<>>}
    ELSE LET shorter == FileLists(n - 1)
         IN  shorter \cup {Append(l, f) : l \in {m \in shorter : Len(m) = n - 1}, f \in FileSet}

\* const DEFAULT_QUALITY = 0.95, in hundredths.
DEFAULT_QUALITY == 95

\* The home page as it is first rendered: useState([]), useState([]),
\* useState(false), useState("strip"), useState("image/png"),
\* useState(DEFAULT_QUALITY).
HomeIdle ==
    /\ pageFiles = <<>>
    /\ processedImages = <<>>
    /\ isProcessing = FALSE
    /\ pageMode = "strip"
    /\ pageFormat = "image/png"
    /\ pageQuality = DEFAULT_QUALITY

\* The orchestrator before processBatch is called.
BatchIdle ==
    /\ files = <<>>
    /\ options = [mode |-> "strip", format |-> "image/png", quality |-> 100,
                  lossless |-> FALSE]
    /\ supported = FALSE
    /\ hasProgress = FALSE
    /\ bpc = "idle"
    /\ idx = 0
    /\ results = <<>>
    /\ reports = <<>>
    /\ errors = <<>>
    /\ calls = <<>>
    /\ inFlight = {}
    /\ outcomes = <<>>
    /\ ppc = "none"
    /\ loc = NoLocals
    /\ ret = NoImage
    /\ site = "none"
    /\ bk = NoBackend
    /\ stages = <<>>
    /\ attempts = <<>>
    /\ acquired = {}
    /\ open = {}

\* No stripper running.
StripIdle ==
    /\ fmt = "none"
    /\ data = <<>>
    /\ pc = "idle"
    /\ i = 0
    /\ iter = 0
    /\ output = <<>>
    /\ src = <<>>
    /\ maxRead = -1
    /\ segs = <<>>
    /\ pass = 1
    /\ first = <<>>

InitStrip ==
    /\ fmt \in {"jpeg", "png", "webp"}
    /\ data \in InputsOf(fmt)
    /\ pc = "start"
    /\ i = 0
    /\ iter = 0
    /\ output = <<>>
    /\ src = <<>>
    /\ maxRead = -1
    /\ segs = <<>>
    /\ pass = 1
    /\ first = <<>>
    /\ BatchIdle
    /\ HomeIdle

NextStrip == NextJpeg \/ NextPng \/ NextWebp

SpecStrip == InitStrip /\ [][NextStrip]_vars

(***************************************************************************)
(* Orchestrator: processBatch and processImage.                            *)
(***************************************************************************)
\* originalName.lastIndexOf(ch): 0-based, -1 when absent.
lastIndexOf(str, ch) ==
    LET hits == {k \in 1..Len(str) : str[k] = ch}
    IN  IF hits = {} THEN -1 ELSE (CHOOSE k \in hits : \A j \in hits : j <= k) - 1

\* str.substring(from, to) and str.substring(from)
substring(str, from, to) == SubSeq(str, from + 1, to)

UpperCase == <<"A", "B", "C", "D", "E", "F", "G", "H", "I", "J", "K", "L", "M",
               "N", "O", "P", "Q", "R", "S", "T", "U", "V", "W", "X", "Y", "Z">>
LowerCase == <<"a", "b", "c", "d", "e", "f", "g", "h", "i", "j", "k", "l", "m",
               "n", "o", "p", "q", "r", "s", "t", "u", "v", "w", "x", "y", "z">>

\* str.toLowerCase()
toLowerCase(str) ==
    [k \in 1..Len(str) |->
        IF \E n \in 1..Len(UpperCase) : UpperCase[n] = str[k]
        THEN LowerCase[CHOOSE n \in 1..Len(UpperCase) : UpperCase[n] = str[k]]
        ELSE str[k]]

getExtensionForFormat(format) ==
    CASE format = "image/jpeg" -> <<"j", "p", "g">>
      [] format = "image/webp" -> <<"w", "e", "b", "p">>
      [] OTHER -> <<"p", "n", "g">>

\* A file name whose extension follows the target format in either mode.
generateCleanFileNameByFormat(originalName, opts) ==
    LET lastDot == lastIndexOf(originalName, ".")
        nameWithoutExt == IF lastDot > 0 THEN substring(originalName, 0, lastDot)
                          ELSE originalName
    IN  nameWithoutExt \o <<"_", "c", "l", "e", "a", "n", ".">>
            \o getExtensionForFormat(opts.format)

\* generateCleanFileName(originalName, options): `${nameWithoutExt}_clean.${ext}`
generateCleanFileName(originalName, opts) ==
    LET lastDot == lastIndexOf(originalName, ".")
        nameWithoutExt == IF lastDot > 0 THEN substring(originalName, 0, lastDot)
                          ELSE originalName
        ext == IF opts.mode = "strip"
               THEN IF lastDot > 0
                    THEN toLowerCase(substring(originalName, lastDot + 1, Len(originalName)))
                    ELSE <<"p", "n", "g">>
               ELSE getExtensionForFormat(opts.format)
    IN  nameWithoutExt \o <<"_", "c", "l", "e", "a", "n", ".">> \o ext

\* The file processBatch is at, and the Blob it is.
File == files[idx + 1]
FileBlob == Blob(idx, "file", File.type)

\* The progress value of the file after the one that is starting.
PercentOfNext(k, total) == [num |-> (k + 1) * 100, den |-> total]

\* (i / total) * 100, as the fraction num / den.
Percent(k, total) == [num |-> k * 100, den |-> total]

\* A call whose result is used without waiting for it to settle.
SettledAlways(p) == TRUE

\* await this.processImage(...) resumes once the call has settled.
Settled(p) == p \in {"returned", "raised"}

\* The modes, target formats and quality settings (in hundredths) of the model.
Modes == {"strip", "reencode"}
Formats == {"image/png", "image/jpeg", "image/webp"}
Qualities == {DEFAULT_QUALITY, 100}

\* Every ProcessingOptions value: { mode, format, quality, lossless }.
ProcessingOptions == [mode : Modes, format : Formats, quality : Qualities, lossless : BOOLEAN]

\* The options the home page builds: { mode, format,
\* quality: format === "image/jpeg" ? quality : 1.0, lossless: format === "image/webp" }
pageOptions(mode, format, quality) ==
    [mode |-> mode, format |-> format,
     quality |-> IF format = "image/jpeg" THEN quality ELSE 100,
     lossless |-> format = "image/webp"]

\* processBatch(files, options, onProgress) as the home page calls it with the
\* quality slider untouched:
\* for (...) { onProgress(...); try { await this.processImage(file, options)
InitBatch ==
    /\ files \in FileLists(MaxFiles)
    /\ options \in {pageOptions(m, f, DEFAULT_QUALITY) : m \in Modes, f \in Formats}
    /\ supported \in BOOLEAN
    /\ hasProgress \in BOOLEAN
    /\ bpc = "loop"
    /\ idx = 0
    /\ results = <<>>
    /\ reports = <<>>
    /\ errors = <<>>
    /\ calls = <<>>
    /\ inFlight = {}
    /\ outcomes = <<>>
    /\ ppc = "none"
    /\ loc = NoLocals
    /\ ret = NoImage
    /\ site = "none"
    /\ bk = NoBackend
    /\ stages = <<>>
    /\ attempts = <<>>
    /\ acquired = {}
    /\ open = {}
    /\ StripIdle
    /\ HomeIdle

\* One pass of the loop head: the progress report (with the number of
\* processImage calls made and settled when the callback runs), then the call
\* of processImage up to its first await (generateHash(file)).
BatchNextFile ==
    /\ bpc = "loop" /\ idx < Len(files)
    /\ reports' = IF hasProgress
                  THEN Append(reports, [value |-> Percent(idx, Len(files)),
                                        name |-> File.name, calls |-> Len(calls),
                                        settled |-> Len(outcomes)])
                  ELSE reports
    /\ calls' = Append(calls, idx)
    /\ inFlight' = inFlight \cup {idx}
    /\ outcomes' = outcomes
    /\ bpc' = "await"
    /\ ppc' = "hash1"
    /\ loc' = NoLocals
    /\ ret' = NoImage
    /\ site' = "none"
    /\ bk' = NoBackend
    /\ stages' = <<>>
    /\ attempts' = <<>>
    /\ acquired' = {}
    /\ UNCHANGED <<inputVars, idx, results, errors, open, stripVars, homeVars>>

\* The settled call's locals go out of scope, and with them the last
\* references to the resources it acquired.
CallEnds ==
    /\ loc' = NoLocals
    /\ ret' = NoImage
    /\ site' = "none"
    /\ bk' = NoBackend
    /\ stages' = <<>>
    /\ attempts' = <<>>
    /\ acquired' = {}
    /\ open' = {}

\* results.push(result); i++
BatchPush ==
    /\ bpc = "await" /\ Settled(ppc) /\ ppc # "raised"
    /\ results' = Append(results, ret)
    /\ idx' = idx + 1
    /\ bpc' = "loop"
    /\ ppc' = "none"
    /\ CallEnds
    /\ UNCHANGED <<inputVars, reports, errors, calls, inFlight, outcomes, stripVars, homeVars>>

\* A loop without the try/catch: the error of processImage leaves processBatch.
BatchRethrows ==
    /\ bpc = "await" /\ ppc = "raised"
    /\ bpc' = "raised"
    /\ ppc' = "none"
    /\ CallEnds
    /\ UNCHANGED <<inputVars, idx, results, reports, errors, calls, inFlight, outcomes, stripVars, homeVars>>

\* catch (error) { console.error(`Failed to process "${file.name}":`, error); } i++
BatchCatch ==
    /\ bpc = "await" /\ Settled(ppc) /\ ppc = "raised"
    /\ errors' = Append(errors, [name |-> File.name, file |-> idx])
    /\ idx' = idx + 1
    /\ bpc' = "loop"
    /\ ppc' = "none"
    /\ CallEnds
    /\ UNCHANGED <<inputVars, results, reports, calls, inFlight, outcomes, stripVars, homeVars>>

\* if (onProgress) { onProgress(100, "Complete"); } return results;
BatchReturn ==
    /\ bpc = "loop" /\ ~(idx < Len(files))
    /\ reports' = IF hasProgress
                  THEN Append(reports, [value |-> [num |-> 100, den |-> 1],
                                        name |-> <<"C", "o", "m", "p", "l", "e", "t", "e">>,
                                        calls |-> Len(calls), settled |-> Len(outcomes)])
                  ELSE reports
    /\ bpc' = "returned"
    /\ UNCHANGED <<inputVars, idx, results, errors, calls, callVars, stripVars, homeVars>>

\* stripMetadata's switch on file.type.toLowerCase() (File.type is ASCII
\* lower case already): the stripper called, "none" for the default branch.
StripperFor(type) ==
    CASE type \in {"image/jpeg", "image/jpg"} -> "stripJpegMetadata"
      [] type = "image/png" -> "stripPngMetadata"
      [] type = "image/webp" -> "stripWebpMetadata"
      [] OTHER -> "none"

\* new Blob([...], { type: ... }) of each stripper
StrippedType(stripper) ==
    CASE stripper = "stripJpegMetadata" -> "image/jpeg"
      [] stripper = "stripPngMetadata" -> "image/png"
      [] OTHER -> "image/webp"

\* A close() that releases nothing.
CloseNothing(o, r) == o

\* bitmap.close(), frame.close(), decoder.close()
Close(o, r) == o \ {r}

\* A decoder resource of the current file, acquired by the current caller.
Res(kind, by) == [kind |-> kind, file |-> idx, by |-> by]

\* A verification record computed from what the input held.
VerificationOfInput == [hasMetadata |-> TRUE, metadataFound |-> <<"EXIF">>, isClean |-> FALSE]

\* const verificationResult = { hasMetadata: false, metadataFound: [],
\* isClean: true, timestamp } (the timestamp is left out).
VerificationResult == [hasMetadata |-> FALSE, metadataFound |-> <<>>, isClean |-> TRUE]

\* A second digest taken of the source file.
HashedBlobIsOriginal(l) == Blob(idx, "file", files[idx + 1].type)

\* generateHash(processedBlob): the blob the second digest is taken of.
HashedBlob(l) == l.processedBlob

\* return { originalFile: file, processedBlob, fileName, originalHash,
\*          processedHash, width, height, verificationResult }
ProcessedImageOf(l) ==
    [originalFile |-> idx, processedBlob |-> l.processedBlob,
     fileName |-> generateCleanFileName(File.name, options),
     originalHash |-> l.originalHash, processedHash |-> l.processedHash,
     width |-> l.width, height |-> l.height,
     verificationResult |-> VerificationResult]

\* The preferred backend chosen whatever the browser offers.
FirstBackendIsCanvas == "canvas"

\* if (WasmProcessor.isSupported()) wasmProcessor.process else canvasProcessor.process
FirstBackend == IF supported THEN "wasm" ELSE "canvas"

\* Where a backend's process() begins.
EntryOf(backend) == IF backend = "wasm" THEN "wasm:new" ELSE "canvas:decode"

\* processImage rejects: the error reaches its caller.
ImageRaises ==
    /\ ppc' = "raised"
    /\ inFlight' = inFlight \ {idx}
    /\ outcomes' = Append(outcomes, [file |-> idx, ok |-> FALSE])
    /\ ret' = NoImage

\* const originalHash = await generateHash(file); then the branch on
\* options.mode up to the call of stripMetadata or of the first backend.
HashOriginal ==
    /\ ppc = "hash1"
    /\ \E ok \in BOOLEAN :
          IF ok
          THEN /\ loc' = [loc EXCEPT !.originalHash = generateHash(FileBlob)]
               /\ stages' = Append(stages, "hash(original)")
               /\ IF options.mode = "strip"
                  THEN ppc' = "strip" /\ site' = site
                  ELSE ppc' = EntryOf(FirstBackend) /\ site' = "try"
               /\ UNCHANGED <<inFlight, outcomes, ret>>
          ELSE /\ ImageRaises
               /\ UNCHANGED <<loc, stages, site>>
    /\ UNCHANGED <<inputVars, loopVars, bk, attempts, acquired, open, stripVars, homeVars>>

\* processedBlob = await stripMetadata(file): the default branch throws,
\* a stripper throws on a bad signature or returns the stripped Blob.
StripMetadata ==
    /\ ppc = "strip"
    /\ LET stripper == StripperFor(File.type)
       IN  \E ok \in BOOLEAN :
             IF stripper # "none" /\ ok
             THEN /\ loc' = [loc EXCEPT !.processedBlob =
                                  Blob(idx, stripper, StrippedType(stripper))]
                  /\ attempts' = Append(attempts, [backend |-> stripper, site |-> "strip",
                                                   ok |-> TRUE, width |-> 0, height |-> 0,
                                                   request |-> NoRequest])
                  /\ stages' = Append(stages, "strip")
                  /\ ppc' = "probe"
                  /\ UNCHANGED <<inFlight, outcomes, ret>>
             ELSE /\ ImageRaises
                  /\ attempts' = IF stripper = "none" THEN attempts
                                 ELSE Append(attempts, [backend |-> stripper,
                                                        site |-> "strip", ok |-> FALSE,
                                                        width |-> 0, height |-> 0,
                                                        request |-> NoRequest])
                  /\ UNCHANGED <<loc, stages>>
    /\ UNCHANGED <<inputVars, loopVars, site, bk, acquired, open, stripVars, homeVars>>

\* The size of a bitmap made of the source file.
probedSizeOfOriginal(file) == file.bitmap

\* createImageBitmap(processedBlob): bitmap.width, bitmap.height of the
\* stripped bytes.
probedSize(file) == file.stripped

\* const bitmap = await createImageBitmap(processedBlob);
\* width = bitmap.width; height = bitmap.height; bitmap.close();
ProbeDimensions ==
    /\ ppc = "probe"
    /\ LET bitmap == Res("ImageBitmap", "probe")
       IN  \E ok \in BOOLEAN :
             IF ok
             THEN /\ acquired' = acquired \cup {bitmap}
                  /\ open' = Close(open \cup {bitmap}, bitmap)
                  /\ loc' = [loc EXCEPT !.width = probedSize(File)[1],
                                        !.height = probedSize(File)[2]]
                  /\ stages' = Append(stages, "dimensions")
                  /\ ppc' = "hash2"
                  /\ UNCHANGED <<inFlight, outcomes, ret>>
             ELSE /\ ImageRaises
                  /\ UNCHANGED <<loc, stages, acquired, open>>
    /\ UNCHANGED <<inputVars, loopVars, site, bk, attempts, stripVars, homeVars>>

\* const processedHash = await generateHash(processedBlob); then the
\* verification record, the file name and the return.
HashProcessed ==
    /\ ppc = "hash2"
    /\ \E ok \in BOOLEAN :
          IF ok
          THEN LET done == [loc EXCEPT !.processedHash = generateHash(HashedBlob(loc))]
               IN  /\ loc' = done
                   /\ ret' = ProcessedImageOf(done)
                   /\ stages' = stages \o <<"hash(result)", "verification", "packaging">>
                   /\ ppc' = "returned"
                   /\ inFlight' = inFlight \ {idx}
                   /\ outcomes' = Append(outcomes, [file |-> idx, ok |-> TRUE])
          ELSE /\ ImageRaises
               /\ UNCHANGED <<loc, stages>>
    /\ UNCHANGED <<inputVars, loopVars, site, bk, attempts, acquired, open, stripVars, homeVars>>

(***************************************************************************)
(* The re-encoding backends: WasmProcessor.process (ImageDecoder) and      *)
(* CanvasProcessor.process (createImageBitmap), called from the try block  *)
(* of processImage and, for the canvas, from its catch block.              *)
(***************************************************************************)
\* const { format, quality } = options;
\* canvas.convertToBlob({ type: format, quality }) or canvas.toBlob(cb, format, quality):
\* what the encoder is asked for.
encodeToBlob(opts) == [type |-> opts.format, quality |-> opts.quality]

\* The encoder request that produced the blob of the backend call that is
\* returning: the canvas backend returns from its encode step, the native
\* one through finally.
RequestMade == IF ppc = "canvas:encode" THEN encodeToBlob(options) ELSE bk.request

\* A try block whose failure goes straight to the caller.
NeverCaught(s) == FALSE

\* An error thrown by a backend called at s is caught by processImage's
\* catch block, which calls canvasProcessor.process.
Caught(s) == s = "try"

\* The size of the last frame of the file.
decodedFrameIsLast(file, frameIndex) == file.frames[Len(file.frames)]

\* (await decoder.decode({ frameIndex })).image: displayWidth, displayHeight
decodedFrame(file, frameIndex) == file.frames[frameIndex + 1]

\* The backend's process() rejects.
BackendThrows(backend) ==
    /\ attempts' = Append(attempts, [backend |-> backend, site |-> site, ok |-> FALSE,
                                     width |-> bk.width, height |-> bk.height,
                                     request |-> NoRequest])
    /\ bk' = NoBackend
    /\ IF Caught(site)
       THEN /\ site' = "catch"
            /\ ppc' = EntryOf("canvas")
            /\ UNCHANGED <<inFlight, outcomes, ret>>
       ELSE /\ site' = site
            /\ ImageRaises
    /\ UNCHANGED <<loc, stages>>

\* The backend's process() resolves with { blob, width, height };
\* processedBlob = result.blob; width = result.width; height = result.height;
BackendReturns(backend, blob) ==
    /\ attempts' = Append(attempts, [backend |-> backend, site |-> site, ok |-> TRUE,
                                     width |-> bk.width, height |-> bk.height,
                                     request |-> RequestMade])
    /\ loc' = [loc EXCEPT !.processedBlob = blob, !.width = bk.width, !.height = bk.height]
    /\ stages' = Append(stages, "reencode")
    /\ ppc' = "hash2"
    /\ bk' = NoBackend
    /\ UNCHANGED <<site, inFlight, outcomes, ret>>

\* const decoder = new ImageDecoder({ data: file.stream(), type: file.type, ... })
WasmNew ==
    /\ ppc = "wasm:new"
    /\ LET decoder == Res("ImageDecoder", site)
       IN  \E ok \in BOOLEAN :
             IF ok
             THEN /\ acquired' = acquired \cup {decoder}
                  /\ open' = open \cup {decoder}
                  /\ ppc' = "wasm:decode"
                  /\ UNCHANGED <<inFlight, outcomes, loc, ret, site, bk, stages, attempts>>
             ELSE /\ BackendThrows("wasm")
                  /\ UNCHANGED <<acquired, open>>
    /\ UNCHANGED <<inputVars, loopVars, stripVars, homeVars>>

\* const result = await decoder.decode({ frameIndex: 0 }); frame = result.image;
\* width = frame.displayWidth; height = frame.displayHeight;
WasmDecode ==
    /\ ppc = "wasm:decode"
    /\ LET frame == Res("VideoFrame", site)
           size  == decodedFrame(File, 0)
       IN  \E ok \in BOOLEAN :
             IF ok
             THEN /\ acquired' = acquired \cup {frame}
                  /\ open' = open \cup {frame}
                  /\ bk' = [bk EXCEPT !.frame = TRUE, !.width = size[1], !.height = size[2]]
                  /\ ppc' = "wasm:draw"
             ELSE /\ bk' = [bk EXCEPT !.pending = "throw"]
                  /\ ppc' = "wasm:finally"
                  /\ UNCHANGED <<acquired, open>>
    /\ UNCHANGED <<inputVars, loopVars, inFlight, outcomes, loc, ret, site, stages, attempts, stripVars, homeVars>>

\* The canvas and its 2d context (null: throw), ctx.drawImage(frame, 0, 0).
WasmDraw ==
    /\ ppc = "wasm:draw"
    /\ \E outcome \in {"ok", "null", "throws"} :
          IF outcome = "ok"
          THEN ppc' = "wasm:encode" /\ bk' = bk
          ELSE ppc' = "wasm:finally" /\ bk' = [bk EXCEPT !.pending = "throw"]
    /\ UNCHANGED <<inputVars, loopVars, inFlight, outcomes, loc, ret, site, stages, attempts,
                   acquired, open, stripVars, homeVars>>

\* const blob = await this.encodeToBlob(canvas, options); return { blob, width, height };
WasmEncode ==
    /\ ppc = "wasm:encode"
    /\ \E ok \in BOOLEAN :
          bk' = IF ok THEN [bk EXCEPT !.blob = Blob(idx, "wasm", options.format),
                                      !.pending = "return",
                                      !.request = encodeToBlob(options)]
                ELSE [bk EXCEPT !.pending = "throw"]
    /\ ppc' = "wasm:finally"
    /\ UNCHANGED <<inputVars, loopVars, inFlight, outcomes, loc, ret, site, stages, attempts,
                   acquired, open, stripVars, homeVars>>

\* finally { if (frame) { frame.close(); } decoder.close(); }
WasmFinally ==
    /\ ppc = "wasm:finally"
    /\ open' = Close(IF bk.frame THEN Close(open, Res("VideoFrame", site)) ELSE open,
                     Res("ImageDecoder", site))
    /\ IF bk.pending = "return"
       THEN BackendReturns("wasm", bk.blob)
       ELSE BackendThrows("wasm")
    /\ UNCHANGED <<inputVars, loopVars, acquired, stripVars, homeVars>>

\* const bitmap = await self.createImageBitmap(file); const { width, height } = bitmap;
CanvasDecode ==
    /\ ppc = "canvas:decode"
    /\ LET bitmap == Res("ImageBitmap", site)
       IN  \E ok \in BOOLEAN :
             IF ok
             THEN /\ acquired' = acquired \cup {bitmap}
                  /\ open' = open \cup {bitmap}
                  /\ bk' = [bk EXCEPT !.width = File.bitmap[1], !.height = File.bitmap[2]]
                  /\ ppc' = "canvas:draw"
                  /\ UNCHANGED <<inFlight, outcomes, loc, ret, site, stages, attempts>>
             ELSE /\ BackendThrows("canvas")
                  /\ UNCHANGED <<acquired, open>>
    /\ UNCHANGED <<inputVars, loopVars, stripVars, homeVars>>

\* The canvas and its 2d context, then drawImage and bitmap.close():
\* a null context closes the bitmap and throws; an exception thrown by the
\* canvas constructor, getContext or drawImage leaves the function at once.
CanvasDraw ==
    /\ ppc = "canvas:draw"
    /\ LET bitmap == Res("ImageBitmap", site)
       IN  \E outcome \in {"ok", "null", "throws"} :
             CASE outcome = "ok" ->
                    /\ open' = Close(open, bitmap)
                    /\ ppc' = "canvas:encode"
                    /\ UNCHANGED <<inFlight, outcomes, loc, ret, site, bk, stages, attempts>>
               [] outcome = "null" ->
                    /\ open' = Close(open, bitmap)
                    /\ BackendThrows("canvas")
               [] OTHER ->
                    /\ open' = open
                    /\ BackendThrows("canvas")
    /\ UNCHANGED <<inputVars, loopVars, acquired, stripVars, homeVars>>

\* const blob = await this.encodeToBlob(canvas, options); return { blob, width, height };
CanvasEncode ==
    /\ ppc = "canvas:encode"
    /\ \E ok \in BOOLEAN :
          IF ok THEN BackendReturns("canvas", Blob(idx, "canvas", options.format))
          ELSE BackendThrows("canvas")
    /\ UNCHANGED <<inputVars, loopVars, acquired, open, stripVars, homeVars>>

NextBatch ==
    \/ BatchNextFile
    \/ BatchPush
    \/ BatchCatch
    \/ BatchReturn
    \/ HashOriginal
    \/ StripMetadata
    \/ ProbeDimensions
    \/ HashProcessed
    \/ WasmNew
    \/ WasmDecode
    \/ WasmDraw
    \/ WasmEncode
    \/ WasmFinally
    \/ CanvasDecode
    \/ CanvasDraw
    \/ CanvasEncode

SpecBatch == InitBatch /\ [][NextBatch]_vars

\* processImage(file, options) for every ProcessingOptions value: a batch of
\* at most MaxOptionFiles files, the options drawn from the whole type.
InitOptions ==
    /\ files \in FileLists(MaxOptionFiles)
    /\ options \in ProcessingOptions
    /\ supported \in BOOLEAN
    /\ hasProgress \in BOOLEAN
    /\ bpc = "loop"
    /\ idx = 0
    /\ results = <<>>
    /\ reports = <<>>
    /\ errors = <<>>
    /\ calls = <<>>
    /\ inFlight = {}
    /\ outcomes = <<>>
    /\ ppc = "none"
    /\ loc = NoLocals
    /\ ret = NoImage
    /\ site = "none"
    /\ bk = NoBackend
    /\ stages = <<>>
    /\ attempts = <<>>
    /\ acquired = {}
    /\ open = {}
    /\ StripIdle
    /\ HomeIdle

SpecOptions == InitOptions /\ [][NextBatch]_vars

(***************************************************************************)
(* The home page: the files, processedImages and isProcessing states, the  *)
(* handlers the DropZone calls, and processImages, which awaits            *)
(* processBatch. The handlers stay available while a run is in flight:     *)
(* only the process button is disabled by isProcessing.                    *)
(***************************************************************************)
\* The positions of the quality slider of FormatOptions (min 0.5, max 1,
\* step 0.05), in hundredths: the lowest and the default.
SliderQualities == {50, DEFAULT_QUALITY}

\* The files the user picks from: a JPEG and a file no stripper accepts.
HomeFileSet == {f \in FileSet : f.type \in {"image/jpg", "image/gif"}}

\* Non-empty lists of at most n of these files.
RECURSIVE HomeLists(_)
HomeLists(n) ==
    IF n = 0 THEN {}
    ELSE LET shorter == HomeLists(n - 1)
         IN  shorter \cup {<<f>> : f \in HomeFileSet}
                     \cup {Append(l, f) : l \in {m \in shorter : Len(m) = n - 1},
                                          f \in HomeFileSet}

InitHome ==
    /\ HomeIdle
    /\ files = <<>>
    /\ options = [mode |-> "strip", format |-> "image/png", quality |-> 100,
                  lossless |-> FALSE]
    /\ supported \in BOOLEAN
    /\ hasProgress = FALSE
    /\ bpc = "idle"
    /\ idx = 0
    /\ results = <<>>
    /\ reports = <<>>
    /\ errors = <<>>
    /\ calls = <<>>
    /\ inFlight = {}
    /\ outcomes = <<>>
    /\ ppc = "none"
    /\ loc = NoLocals
    /\ ret = NoImage
    /\ site = "none"
    /\ bk = NoBackend
    /\ stages = <<>>
    /\ attempts = <<>>
    /\ acquired = {}
    /\ open = {}
    /\ StripIdle

\* handleFileSelect(selectedFiles): setFiles(selectedFiles); setProcessedImages([]);
handleFileSelect ==
    /\ \E selectedFiles \in HomeLists(MaxSelection) : pageFiles' = selectedFiles
    /\ processedImages' = <<>>
    /\ UNCHANGED <<isProcessing, choiceVars, batchVars, stripVars>>

\* handleFileDrop(droppedFiles): setFiles(droppedFiles); setProcessedImages([]);
handleFileDrop ==
    /\ \E droppedFiles \in HomeLists(MaxSelection) : pageFiles' = droppedFiles
    /\ processedImages' = <<>>
    /\ UNCHANGED <<isProcessing, choiceVars, batchVars, stripVars>>

\* handleFileRemove(index): setFiles((prev) => prev.filter((_, i) => i !== index));
handleFileRemove ==
    /\ \E index \in 0..(Len(pageFiles) - 1) :
          pageFiles' = SubSeq(pageFiles, 1, index) \o SubSeq(pageFiles, index + 2, Len(pageFiles))
    /\ UNCHANGED <<processedImages, isProcessing, choiceVars, batchVars, stripVars>>

\* handleClearAll(): setFiles([]); setProcessedImages([]); (the button is
\* rendered when files.length > 0)
handleClearAll ==
    /\ Len(pageFiles) > 0
    /\ pageFiles' = <<>>
    /\ processedImages' = <<>>
    /\ UNCHANGED <<isProcessing, choiceVars, batchVars, stripVars>>

\* handleAddMore(newFiles): setFiles((prev) => [...prev, ...newFiles]); (the
\* button is rendered when files.length > 0)
handleAddMore ==
    /\ Len(pageFiles) > 0
    /\ \E newFiles \in HomeLists(MaxSelection) :
          /\ Len(pageFiles) + Len(newFiles) <= MaxSelection
          /\ pageFiles' = pageFiles \o newFiles
    /\ UNCHANGED <<processedImages, isProcessing, choiceVars, batchVars, stripVars>>

\* ModeSelector: onClick={() => onModeChange("strip")} and
\* onClick={() => onModeChange("reencode")}, with onModeChange = setMode.
setMode ==
    /\ \E m \in Modes : pageMode' = m
    /\ UNCHANGED <<pageFiles, processedImages, isProcessing, pageFormat, pageQuality,
                   batchVars, stripVars>>

\* FormatOptions, rendered when mode === "reencode": the format selector
\* calls onFormatChange = setFormat.
setFormat ==
    /\ pageMode = "reencode"
    /\ \E f \in Formats : pageFormat' = f
    /\ UNCHANGED <<pageFiles, processedImages, isProcessing, pageMode, pageQuality,
                   batchVars, stripVars>>

\* FormatOptions: the slider, rendered when format === "image/jpeg", calls
\* onQualityChange = setQuality.
setQuality ==
    /\ pageMode = "reencode" /\ pageFormat = "image/jpeg"
    /\ \E q \in SliderQualities : pageQuality' = q
    /\ UNCHANGED <<pageFiles, processedImages, isProcessing, pageMode, pageFormat,
                   batchVars, stripVars>>

\* processImages up to its await (the button is disabled when
\* files.length === 0 || isProcessing): setIsProcessing(true);
\* setProcessedImages([]); options = { mode, format, quality, lossless };
\* processor.processBatch(files, options, (progressValue) => setProgress(progressValue))
processImages ==
    /\ Len(pageFiles) > 0 /\ ~isProcessing
    /\ isProcessing' = TRUE
    /\ processedImages' = <<>>
    /\ files' = pageFiles
    /\ options' = pageOptions(pageMode, pageFormat, pageQuality)
    /\ hasProgress' = TRUE
    /\ bpc' = "loop"
    /\ idx' = 0
    /\ results' = <<>>
    /\ reports' = <<>>
    /\ errors' = <<>>
    /\ calls' = <<>>
    /\ inFlight' = {}
    /\ outcomes' = <<>>
    /\ open' = {}
    /\ UNCHANGED <<pageFiles, choiceVars, supported, ppc, loc, ret, site, bk, stages,
                   attempts, acquired, stripVars>>

\* const results = await processor.processBatch(...); setProcessedImages(results);
\* finally { setIsProcessing(false); }  Each result holds its File as originalFile.
processImagesResumes ==
    /\ isProcessing /\ bpc = "returned"
    /\ processedImages' = [k \in 1..Len(results) |->
                              [results[k] EXCEPT
                                  !.originalFile = files[results[k].originalFile + 1]]]
    /\ isProcessing' = FALSE
    /\ files' = <<>>
    /\ options' = [mode |-> "strip", format |-> "image/png", quality |-> 100,
                   lossless |-> FALSE]
    /\ hasProgress' = FALSE
    /\ bpc' = "idle"
    /\ idx' = 0
    /\ results' = <<>>
    /\ reports' = <<>>
    /\ errors' = <<>>
    /\ calls' = <<>>
    /\ inFlight' = {}
    /\ outcomes' = <<>>
    /\ open' = {}
    /\ UNCHANGED <<pageFiles, choiceVars, supported, ppc, loc, ret, site, bk, stages,
                   attempts, acquired, stripVars>>

NextHome ==
    \/ handleFileSelect
    \/ handleFileDrop
    \/ handleFileRemove
    \/ handleClearAll
    \/ handleAddMore
    \/ setMode
    \/ setFormat
    \/ setQuality
    \/ processImages
    \/ processImagesResumes
    \/ NextBatch

SpecHome == InitHome /\ [][NextHome]_vars

(***************************************************************************)
(* Properties of the strippers.                                            *)
(***************************************************************************)
Returned == pc = "done"

\* The big-endian 16-bit number at d[at], d[at + 1].
U16At(d, at) == At(d, at) * 256 + At(d, at + 1)

\* The indices of d that lie in a COM or APP1..APP15 segment, walking the
\* marker structure of the whole file from index p: before a start-of-scan
\* as the main loop walks it; after one, entropy-coded bytes, stuffed FF 00
\* pairs and restart markers are passed over and any other marker opens a
\* segment again, until the end-of-image marker.
RECURSIVE MetadataIndices(_, _, _)
MetadataIndices(d, p, inScan) ==
    IF p + 1 >= Len(d) THEN {}
    ELSE IF At(d, p) # 255 THEN MetadataIndices(d, p + 1, inScan)
    ELSE LET m == At(d, p + 1)
         IN  IF m = 217 THEN {}
             ELSE IF m = 255 THEN MetadataIndices(d, p + 1, inScan)
             ELSE IF inScan /\ m = 0 THEN MetadataIndices(d, p + 2, inScan)
             ELSE IF m \in (208..215) \cup {216, 1} THEN MetadataIndices(d, p + 2, inScan)
             ELSE IF p + 3 >= Len(d) THEN {}
             ELSE LET len == U16At(d, p + 2)
                  IN  IF len < 2 \/ p + 2 + len > Len(d) THEN {}
                      ELSE (IF m = 254 \/ m \in 225..239
                            THEN p..(p + 1 + len) ELSE {})
                           \cup MetadataIndices(d, p + 2 + len, m = 218)

\* C1: when stripJpegMetadata has returned, no byte of its output was taken
\* from a COM or APP1..APP15 segment of the input, wherever the segment
\* lies in the file (before the first start-of-scan or after it).
C1_NoMetadataSegmentInOutput ==
    (fmt = "jpeg" /\ Returned) =>
        \A k \in 1..Len(src) : src[k] \notin MetadataIndices(data, 2, FALSE)

\* C4: JPEG stripping is idempotent: stripping the result of a strip is
\* accepted and returns that result byte for byte.
C4_JpegStripIdempotent ==
    (fmt = "jpeg" /\ pass = 2) =>
        /\ pc # "error"
        /\ Returned => output = first

\* C7: an APP0 segment parsed before the start-of-scan is kept if and only
\* if its own payload (the bytes of the segment after the 2-byte length
\* field) begins with "JFIF\0".
C7_App0KeptIffOwnPayloadIsJfif ==
    fmt = "jpeg" =>
        \A k \in 1..Len(segs) :
            (segs[k].kind = "segment" /\ segs[k].marker = 224) =>
                (segs[k].kept <=>
                    /\ segs[k].end - segs[k].at - 4 >= 5
                    /\ Slice(data, segs[k].at + 4, segs[k].at + 9) = <<74, 70, 73, 70, 0>>)

\* The allow-lists as the specification gives them.
PngAllowList ==
    { <<73, 72, 68, 82>>, <<80, 76, 84, 69>>, <<73, 68, 65, 84>>, <<73, 69, 78, 68>>,
      <<116, 82, 78, 83>> }
WebpAllowList ==
    { <<86, 80, 56, 32>>, <<86, 80, 56, 76>>, <<86, 80, 56, 88>>, <<65, 78, 73, 77>>,
      <<65, 78, 77, 70>>, <<65, 76, 80, 72>> }

U32BEAt(d, at) ==
    At(d, at) * 16777216 + At(d, at + 1) * 65536 + At(d, at + 2) * 256 + At(d, at + 3)
U32LEAt(d, at) ==
    At(d, at) + At(d, at + 1) * 256 + At(d, at + 2) * 65536 + At(d, at + 3) * 16777216

\* The chunks found when a PNG buffer o is walked from index p: each a
\* record of its type and extent; walk.rest is the index the walk stopped at.
RECURSIVE PngWalk(_, _)
PngWalk(o, p) ==
    IF p + 12 > Len(o) \/ At(o, p) >= 128 THEN [chunks |-> <<>>, rest |-> p]
    ELSE LET len  == U32BEAt(o, p)
             tail == PngWalk(o, p + 12 + len)
         IN  IF len > Len(o) - p - 12 THEN [chunks |-> <<>>, rest |-> p]
             ELSE [chunks |-> <<[type |-> Slice(o, p + 4, p + 8), at |-> p,
                                 end |-> p + 12 + len]>> \o tail.chunks,
                   rest |-> tail.rest]

\* The same for the RIFF chunks of a WebP buffer; the pad byte of an odd
\* chunk counts to it, and may be missing after the last chunk.
RECURSIVE WebpWalk(_, _)
WebpWalk(o, p) ==
    IF p + 8 > Len(o) \/ At(o, p + 7) >= 128 THEN [chunks |-> <<>>, rest |-> p]
    ELSE LET size == U32LEAt(o, p + 4)
             next == p + 8 + size + (size % 2)
             tail == WebpWalk(o, next)
         IN  IF size > Len(o) - p - 8 THEN [chunks |-> <<>>, rest |-> p]
             ELSE [chunks |-> <<[type |-> Slice(o, p, p + 4), at |-> p,
                                 end |-> next]>> \o tail.chunks,
                   rest |-> tail.rest]

\* C2: when stripPngMetadata (stripWebpMetadata) has returned, the output
\* after its header is a sequence of whole chunks up to its end, and the
\* type of every one of them is in the format's allow-list.
C2_OutputChunksAllowListed ==
    /\ (fmt = "png" /\ Returned) =>
          LET walk == PngWalk(output, 8)
          IN  /\ walk.rest = Len(output)
              /\ \A k \in 1..Len(walk.chunks) : walk.chunks[k].type \in PngAllowList
    /\ (fmt = "webp" /\ Returned) =>
          LET walk == WebpWalk(output, 12)
          IN  /\ walk.rest >= Len(output)
              /\ \A k \in 1..Len(walk.chunks) : walk.chunks[k].type \in WebpAllowList

\* A WebP strip has returned having dropped an EXIF chunk and kept a "VP8 " one.
C2_Witness ==
    /\ fmt = "webp" /\ Returned
    /\ \E k \in 1..Len(segs) : segs[k].marker = <<69, 88, 73, 70>> /\ ~segs[k].kept
    /\ \E k \in 1..Len(segs) : segs[k].marker = <<86, 80, 56, 32>> /\ segs[k].kept

\* C3: in every output of stripWebpMetadata the little-endian RIFF size
\* field at offset 4 equals the output length minus 8.
C3_RiffSizeIsOutputLengthMinus8 ==
    (fmt = "webp" /\ Returned) =>
        /\ Len(output) >= 12
        /\ U32LEAt(output, 4) = Len(output) - 8

\* A WebP strip has returned whose input carried a size field other than
\* the one the output needs, with a chunk dropped and a size above 255.
C3_Witness ==
    /\ fmt = "webp" /\ Returned
    /\ U32LEAt(data, 4) # Len(output) - 8
    /\ \E k \in 1..Len(segs) : ~segs[k].kept
    /\ Len(output) - 8 > 255

\* C5: the output of each stripper is never longer than its input.
C5_OutputNotLongerThanInput ==
    Returned => Len(output) <= Len(data)

\* A JPEG strip of a source file has returned an output that is shorter
\* than the input and holds more than the SOI marker.
C5_Witness ==
    /\ fmt = "jpeg" /\ Returned /\ pass = 1
    /\ Len(output) < Len(data)
    /\ Len(output) > 2

\* The signature checks as the specification states them.
GoodSignature ==
    IF fmt = "jpeg" THEN Len(data) >= 2 /\ SubSeq(data, 1, 2) = <<255, 216>>
    ELSE IF fmt = "png"
    THEN Len(data) >= 8 /\ SubSeq(data, 1, 8) = <<137, 80, 78, 71, 13, 10, 26, 10>>
    ELSE /\ Len(data) >= 12
         /\ SubSeq(data, 1, 4) = <<82, 73, 70, 70>>
         /\ SubSeq(data, 9, 12) = <<87, 69, 66, 80>>

\* C6: a stripper ends in an error, with no output, exactly when the
\* signature check fails; a buffer that passes it never raises and the
\* stripper can always take its next step until it has returned.
C6_ErrorIffSignatureFails ==
    /\ pc # "start" => (pc = "error" <=> ~GoodSignature)
    /\ pc = "error" => output = <<>>
    /\ (pc # "start" /\ GoodSignature /\ ~Returned) => ENABLED NextStrip

\* A PNG buffer of 8 bytes or more was refused for its signature.
C6_Witness ==
    /\ fmt = "png" /\ pc = "error"
    /\ Len(data) >= 8

\* The segment record of the start-of-scan, if the main loop reached one.
SosRecords == {k \in 1..Len(segs) : segs[k].kind = "sos"}

\* The index after the first FF D9 pair of d at or after index p; the
\* length of d when there is none.
FirstEoiEnd(d, p) ==
    LET pairs == {q \in p..(Len(d) - 2) : At(d, q) = 255 /\ At(d, q + 1) = 217}
    IN  IF pairs = {} THEN Len(d)
        ELSE (CHOOSE q \in pairs : \A r \in pairs : q <= r) + 2

\* C8: from the start-of-scan on, the output is the SOS segment followed by
\* every input byte after it, verbatim and in order, up to and including the
\* first FF D9 pair (stuffed FF 00 pairs copied as both bytes); nothing after
\* that pair is copied.
C8_ScanCopiedVerbatimToFirstEoi ==
    fmt = "jpeg" =>
        \A k \in SosRecords :
            LET stop == FirstEoiEnd(data, segs[k].end)
                tail == SubSeq(output, segs[k].outAt + 1, Len(output))
            IN  /\ pc = "scan" => /\ i <= stop
                                  /\ tail = Slice(data, segs[k].at, i)
                /\ Returned => tail = Slice(data, segs[k].at, stop)

\* A JPEG strip has returned after a scan that held a stuffed FF 00 pair
\* and ended at an end-of-image marker that was followed by more bytes.
C8_Witness ==
    /\ fmt = "jpeg" /\ Returned /\ pass = 1
    /\ \E k \in SosRecords :
          /\ FirstEoiEnd(data, segs[k].end) < Len(data)
          /\ \E q \in segs[k].end..(Len(data) - 2) :
                /\ q + 2 < FirstEoiEnd(data, segs[k].end)
                /\ At(data, q) = 255 /\ At(data, q + 1) = 0

\* A record of segs describes a marker or segment that lies whole inside d.
ValidlyParsed(d, s) ==
    /\ s.at >= 2 /\ s.end <= Len(d)
    /\ At(d, s.at) = 255 /\ At(d, s.at + 1) = s.marker
    /\ IF s.kind \in {"segment", "sos"}
       THEN U16At(d, s.at + 2) >= 2 /\ s.end = s.at + 2 + U16At(d, s.at + 2)
       ELSE s.end = s.at + 2

\* C9: on every buffer that begins with FF D8, however malformed its rest,
\* stripJpegMetadata never raises, never reads at or beyond the buffer
\* length, can always take its next step until it returns, and its output is
\* FF D8 followed only by bytes copied, in input order, from validly parsed
\* kept segments or from the scan data.
C9_MalformedJpegHandledGracefully ==
    (fmt = "jpeg" /\ pc # "start" /\ Len(data) >= 2 /\ SubSeq(data, 1, 2) = <<255, 216>>) =>
        /\ pc # "error"
        /\ maxRead < Len(data)
        /\ i <= Len(data)
        /\ ~Returned => ENABLED NextJpeg
        /\ Len(output) >= 2 /\ SubSeq(output, 1, 2) = <<255, 216>>
        /\ \A k \in 1..Len(segs) : ValidlyParsed(data, segs[k])
        /\ \A k \in 3..Len(output) :
              /\ src[k] < Len(data)
              /\ src[k] > src[k - 1]
              /\ output[k] = At(data, src[k])
              /\ \/ \E j \in 1..Len(segs) :
                       segs[j].kept /\ segs[j].at <= src[k] /\ src[k] < segs[j].end
                 \/ \E j \in SosRecords : segs[j].end <= src[k]

\* A JPEG strip has returned because a segment after a kept one was cut
\* short or carried an invalid length.
C9_Witness ==
    /\ fmt = "jpeg" /\ Returned /\ pass = 1
    /\ JpegAtSegment
    /\ \E k \in 1..Len(segs) : segs[k].kind = "segment" /\ segs[k].kept

\* The bytes stripPngMetadata is to copy from index p on: the allow-listed
\* chunks, whole, up to and including the first IEND, or up to the first
\* chunk whose 12-byte frame is incomplete or whose length overruns d.
RECURSIVE PngExpected(_, _)
PngExpected(d, p) ==
    IF p + 12 > Len(d) \/ At(d, p) >= 128 THEN <<>>
    ELSE LET len  == U32BEAt(d, p)
             type == Slice(d, p + 4, p + 8)
         IN  IF len > Len(d) - p - 12 THEN <<>>
             ELSE (IF type \in PngAllowList THEN Slice(d, p, p + 12 + len) ELSE <<>>)
                  \o (IF type = <<73, 69, 78, 68>> THEN <<>>
                      ELSE PngExpected(d, p + 12 + len))

\* C10: the output of stripPngMetadata is the 8-byte signature followed by
\* exactly the allow-listed chunks, byte for byte and in input order, up to
\* and including the first IEND or up to the first incomplete or overrunning
\* chunk; IHDR, a tEXt chunk of 120 bytes, IDAT, IEND gives IHDR, IDAT, IEND
\* and a length of the original minus 120.
C10_PngOutputIsAllowListedChunksToIend ==
    (fmt = "png" /\ Returned) =>
        /\ output = <<137, 80, 78, 71, 13, 10, 26, 10>> \o PngExpected(data, 8)
        /\ data = PngScenario =>
              /\ Len(output) = Len(data) - 120
              /\ output = SubSeq(data, 1, 33) \o SubSeq(data, 154, Len(data))

\* The strip of IHDR, tEXt (120 bytes), IDAT, IEND has returned three chunks.
C10_Witness ==
    /\ fmt = "png" /\ Returned
    /\ data = PngScenario
    /\ Len(PngWalk(output, 8).chunks) = 3

\* The walk of a JPEG from index p (after SOI) as a sequence of contiguous
\* length-prefixed segments ending in one SOS, its scan data and the only
\* FF D9 pair at the very end: whether d has that shape, the bytes of the
\* segments that are not COM, APP1..APP15 or an APP0 whose payload does not
\* begin with "JFIF\0", and the byte count of the segments that are.
RECURSIVE JpegWalk(_, _)
JpegWalk(d, p) ==
    LET m    == At(d, p + 1)
        len  == U16At(d, p + 2)
        next == p + 2 + len
        bad  == [ok |-> FALSE, kept |-> <<>>, removed |-> 0]
    IN  IF p + 4 > Len(d) \/ At(d, p) # 255 THEN bad
        ELSE IF m \in {0, 1, 255} \cup 208..217 THEN bad
        ELSE IF len < 2 \/ next > Len(d) THEN bad
        ELSE IF m = 218
             THEN IF /\ next + 2 <= Len(d)
                     /\ At(d, Len(d) - 2) = 255 /\ At(d, Len(d) - 1) = 217
                     /\ FirstEoiEnd(d, next) = Len(d)
                  THEN [ok |-> TRUE, kept |-> Slice(d, p, Len(d)), removed |-> 0]
                  ELSE bad
        ELSE LET rest == JpegWalk(d, next)
                 drop == \/ m = 254
                         \/ m >= 225 /\ m <= 239
                         \/ m = 224 /\ ~(len >= 7 /\ Slice(d, p + 4, p + 9) = <<74, 70, 73, 70, 0>>)
             IN  [ok      |-> rest.ok,
                  kept    |-> IF drop THEN rest.kept ELSE Slice(d, p, next) \o rest.kept,
                  removed |-> IF drop THEN rest.removed + len + 2 ELSE rest.removed]

JpegIsWellFormed(d) ==
    /\ Len(d) >= 2 /\ SubSeq(d, 1, 2) = <<255, 216>>
    /\ JpegWalk(d, 2).ok

\* C11: for a well-formed JPEG the output of stripJpegMetadata is the input
\* with exactly the COM, APP1..APP15 and non-JFIF APP0 segments removed:
\* every other segment is kept byte for byte and in order, the output begins
\* with FF D8 and ends with FF D9, and its length is the input length minus
\* the bytes of the removed segments (1020 - 200 - 50 = 770).
C11_WellFormedJpegLosesExactlyMetadataSegments ==
    (fmt = "jpeg" /\ Returned /\ JpegIsWellFormed(data)) =>
        LET w == JpegWalk(data, 2)
        IN  /\ output = <<255, 216>> \o w.kept
            /\ SubSeq(output, 1, 2) = <<255, 216>>
            /\ SubSeq(output, Len(output) - 1, Len(output)) = <<255, 217>>
            /\ Len(output) = Len(data) - w.removed
            /\ data = JpegLarge => Len(data) = 1020 /\ Len(output) = 770

\* The strip of the 1020-byte file (a 200-byte APP1, a 50-byte COM) has
\* returned 770 bytes.
C11_Witness ==
    /\ fmt = "jpeg" /\ Returned /\ pass = 1
    /\ data = JpegLarge
    /\ Len(output) = 770

\* The declared types the specification recognizes.
RecognizedTypes == {"image/jpeg", "image/png", "image/webp"}

\* processImage has handed the file to a stripper or to a backend.
Dispatched ==
    \/ attempts # <<>>
    \/ ppc \in {"probe", "wasm:new", "wasm:decode", "wasm:draw", "wasm:encode",
                 "wasm:finally", "canvas:decode", "canvas:draw", "canvas:encode",
                 "hash2", "returned"}

\* C12: a file whose declared MIME type is not image/jpeg, image/png or
\* image/webp is never handed to a stripper or a backend and never yields a
\* ProcessedImage, in Strip mode and in Reencode mode alike.
C12_UnrecognizedTypeNeverDispatched ==
    /\ \A k \in 1..Len(results) :
          files[results[k].originalFile + 1].type \in RecognizedTypes
    /\ (bpc = "await" /\ File.type \notin RecognizedTypes) => ~Dispatched

\* The file numbers of a list of records, in order.
FileNumbers(records, field) == [k \in 1..Len(records) |-> records[k][field]]

\* processBatch has returned its results.
BatchReturned == bpc = "returned"

\* C13: processBatch never raises and can always go on until it returns;
\* between two files, and at its return, the calls of processImage made are
\* those of files 0..i-1 in order, results holds exactly the ProcessedImages of
\* the calls that returned, in input order, and exactly one failure is logged
\* for each call that raised; at its return every file has been processed.
C13_BatchIsolatesFailures ==
    /\ bpc \in {"idle", "loop", "await", "returned"}
    /\ (bpc \in {"loop", "await"}) => ENABLED NextBatch
    /\ (bpc \in {"loop", "returned"}) =>
          /\ FileNumbers(outcomes, "file") = [k \in 1..idx |-> k - 1]
          /\ FileNumbers(results, "originalFile")
                = FileNumbers(SelectSeq(outcomes, LAMBDA o : o.ok), "file")
          /\ FileNumbers(errors, "file")
                = FileNumbers(SelectSeq(outcomes, LAMBDA o : ~o.ok), "file")
          /\ \A k \in 1..Len(errors) : errors[k].name = files[errors[k].file + 1].name
    /\ BatchReturned => idx = Len(files)

\* A batch of N files whose first file failed has returned N - 1 results
\* and logged one failure.
C13_Witness ==
    /\ BatchReturned
    /\ Len(files) = MaxFiles
    /\ ~outcomes[1].ok
    /\ Len(errors) = 1
    /\ Len(results) = Len(files) - 1

\* C14: within one processBatch call at most one file is in flight; files
\* are started in input order, and file i + 1 is started, and its progress
\* reported, only when the processing of every file up to i has completed or
\* failed.
C14_OneFileInFlight ==
    /\ Cardinality(inFlight) <= 1
    /\ calls = [k \in 1..Len(calls) |-> k - 1]
    /\ Len(calls) - 1 <= Len(outcomes) /\ Len(outcomes) <= Len(calls)
    /\ inFlight = IF Len(outcomes) < Len(calls) THEN {calls[Len(calls)]} ELSE {}
    /\ (bpc = "await" /\ ~(ppc \in {"returned", "raised"})) => inFlight = {idx}
    /\ \A k \in 1..Len(reports) :
          reports[k].calls = reports[k].settled

\* The second file of a batch is in flight, after its progress report and
\* after the first file has settled.
C14_Witness ==
    /\ bpc = "await" /\ idx = 1 /\ ppc = "hash2"
    /\ inFlight = {1}
    /\ Len(outcomes) = 1
    /\ Len(reports) = 2

\* a <= b for two fractions with positive denominators.
FractionLeq(a, b) == a.num * b.den <= b.num * a.den

\* C15: with a progress callback, processBatch has reported, for every file
\* started so far and in input order, the value (i / N) * 100 with the name of
\* file i, once, before the call of processImage for file i and whether or
\* not that file fails; at its return it has reported 100 once more, after
\* the last file; the values never decrease and lie within 0..100; for an
\* empty list the only report is the final 100.
C15_ProgressReports ==
    IF hasProgress
    THEN /\ Len(reports) = Len(calls) + (IF BatchReturned THEN 1 ELSE 0)
         /\ \A k \in 1..Len(calls) :
               /\ reports[k].value.num * Len(files) = (k - 1) * 100 * reports[k].value.den
               /\ reports[k].name = files[k].name
               /\ reports[k].calls = k - 1
         /\ BatchReturned =>
               /\ Len(reports) = Len(files) + 1
               /\ reports[Len(reports)].value.num = 100 * reports[Len(reports)].value.den
               /\ reports[Len(reports)].settled = Len(files)
         /\ \A k \in 1..Len(reports) :
               /\ reports[k].value.den > 0
               /\ 0 <= reports[k].value.num
               /\ reports[k].value.num <= 100 * reports[k].value.den
               /\ \A j \in 1..(k - 1) : FractionLeq(reports[j].value, reports[k].value)
    ELSE reports = <<>>

\* A batch of two files with a callback has returned after the reports 0,
\* 50 and 100; its first file failed.
C15_Witness ==
    /\ hasProgress /\ BatchReturned
    /\ Len(files) = 2
    /\ ~outcomes[1].ok
    /\ Len(reports) = 3
    /\ reports[2].value = [num |-> 100, den |-> 2]

\* The stages of a complete processImage call, in order.
ExpectedStages ==
    IF options.mode = "strip"
    THEN <<"hash(original)", "strip", "dimensions", "hash(result)", "verification", "packaging">>
    ELSE <<"hash(original)", "reencode", "hash(result)", "verification", "packaging">>

\* A ProcessedImage made for file number k: the digest of that file, bytes
\* made from that file by a stripper or a backend, the digest of those
\* bytes, and a size the decoders report for that file.
CompleteFor(image, k) ==
    /\ image.originalFile = k
    /\ image.originalHash = [alg |-> "SHA-256",
                             of |-> [of |-> files[k + 1].name, by |-> "file"]]
    /\ image.processedBlob.of = k
    /\ image.processedBlob.by \in {"stripJpegMetadata", "stripPngMetadata",
                                    "stripWebpMetadata", "wasm", "canvas"}
    /\ image.processedHash = [alg |-> "SHA-256",
                              of |-> [of |-> files[k + 1].name,
                                      by |-> IF /\ files[k + 1].clean
                                                /\ image.processedBlob.by
                                                      \notin {"wasm", "canvas"}
                                             THEN "file"
                                             ELSE image.processedBlob.by]]
    /\ <<image.width, image.height>> \in
          {files[k + 1].bitmap, files[k + 1].stripped} \cup {files[k + 1].frames[n] : n \in 1..Len(files[k + 1].frames)}

\* C16: the stages of processImage run in the order hash(original), strip
\* or reencode, hash(result), verification record, packaging; a
\* ProcessedImage exists only once all of them have completed; a call that
\* fails raises with no ProcessedImage, before the stages are complete; and
\* every ProcessedImage returned holds the digest of its own file, bytes made
\* from it, the digest of those bytes and a size decoded from it.
C16_StagesInOrderAndAllOrNothing ==
    /\ (bpc = "await") =>
          /\ Len(stages) <= Len(ExpectedStages)
          /\ stages = SubSeq(ExpectedStages, 1, Len(stages))
          /\ (ppc = "returned") <=> (stages = ExpectedStages)
          /\ (ret # NoImage) <=> (ppc = "returned")
          /\ (ppc = "returned") => CompleteFor(ret, idx)
          /\ (ppc = "raised") => ~outcomes[Len(outcomes)].ok
    /\ \A k \in 1..Len(results) : CompleteFor(results[k], results[k].originalFile)

\* The second file of a batch, another file than the first, has been
\* returned by processImage after the first was returned too.
C16_Witness ==
    /\ bpc = "await" /\ ppc = "returned" /\ idx = 1
    /\ Len(results) = 1
    /\ files[1] # files[2]
    /\ ret.processedHash # results[1].processedHash

\* The verification record says the image is clean.
SaysClean(image) ==
    /\ image.verificationResult.isClean = TRUE
    /\ image.verificationResult.hasMetadata = FALSE
    /\ image.verificationResult.metadataFound = <<>>

\* C17: every ProcessedImage returned by processImage or by processBatch,
\* in Strip mode and in Reencode mode, carries a verification record with
\* isClean = true, hasMetadata = false and an empty metadataFound list.
C17_VerificationRecordSaysClean ==
    /\ (bpc = "await" /\ ppc = "returned") => SaysClean(ret)
    /\ \A k \in 1..Len(results) : SaysClean(results[k])

\* processBatch has returned two ProcessedImages and processImage had
\* returned each of them.
C17_Witness ==
    /\ BatchReturned
    /\ Len(results) = 2
    /\ Len(outcomes) = 2 /\ outcomes[1].ok /\ outcomes[2].ok

WasmPositions == {"wasm:new", "wasm:decode", "wasm:draw", "wasm:encode", "wasm:finally"}
CanvasPositions == {"canvas:decode", "canvas:draw", "canvas:encode"}

\* C18: in Reencode mode, where ImageDecoder is available the WebCodecs
\* backend is the first one attempted; if it succeeds the canvas backend is
\* not run; if it fails the canvas backend is run, once; processImage raises
\* after its first digest only when the canvas fallback has failed too; and
\* the bytes and size it goes on with are those of the one attempt that
\* succeeded, every attempt before it having failed.
C18_PreferredBackendThenOneFallback ==
    (bpc = "await" /\ options.mode = "reencode") =>
        /\ Len(attempts) <= 2
        /\ supported =>
              /\ (attempts = <<>>) => ppc \in WasmPositions \cup {"hash1", "raised"}
              /\ (attempts # <<>>) =>
                    /\ attempts[1].backend = "wasm"
                    /\ attempts[1].ok => Len(attempts) = 1 /\ ppc \in {"hash2", "returned", "raised"}
                    /\ (~attempts[1].ok /\ Len(attempts) = 1) =>
                          ppc \in CanvasPositions /\ site = "catch"
              /\ (Len(attempts) = 2) =>
                    ~attempts[1].ok /\ attempts[2].backend = "canvas" /\ attempts[2].site = "catch"
        /\ (ppc = "raised" /\ stages = <<"hash(original)">>) =>
              /\ attempts # <<>>
              /\ \A k \in 1..Len(attempts) : ~attempts[k].ok
              /\ attempts[Len(attempts)].backend = "canvas"
              /\ attempts[Len(attempts)].site = "catch"
        /\ (ppc \in {"hash2", "returned"}) =>
              /\ attempts # <<>>
              /\ attempts[Len(attempts)].ok
              /\ \A k \in 1..(Len(attempts) - 1) : ~attempts[k].ok
              /\ loc.processedBlob.by = attempts[Len(attempts)].backend
              /\ loc.width = attempts[Len(attempts)].width
              /\ loc.height = attempts[Len(attempts)].height

\* processImage has returned the result of the canvas fallback after the
\* WebCodecs backend failed with a frame decoded.
C18_Witness ==
    /\ bpc = "await" /\ options.mode = "reencode" /\ supported
    /\ ppc = "returned"
    /\ Len(attempts) = 2
    /\ attempts[1].backend = "wasm" /\ ~attempts[1].ok /\ attempts[1].width > 0
    /\ attempts[2].backend = "canvas" /\ attempts[2].ok
    /\ ret.processedBlob.by = "canvas"

\* C19: a decoder resource (ImageBitmap, VideoFrame, ImageDecoder) is open
\* only while the operation that acquired it is running: once the backend
\* or the dimension probe has exited, by return or by any failure, every
\* resource it acquired has been closed.
C19_ResourcesClosedAtExit ==
    \A r \in open :
        /\ bpc = "await"
        /\ r.file = idx
        /\ r.by = site
        /\ ppc \in WasmPositions \cup CanvasPositions

\* The size the decode of the backend that made the image's bytes reports
\* for file number k: the first frame for ImageDecoder, the bitmap for the
\* canvas backend.
DecodedSize(image, k) ==
    IF image.processedBlob.by = "wasm" THEN files[k + 1].frames[1]
    ELSE files[k + 1].bitmap

\* C20: in Reencode mode, whatever the file and the target format, the
\* width and height of a returned ProcessedImage are the first-frame size
\* reported by the decode of the backend that produced its bytes, never the
\* size seen by a failed attempt nor that of another frame.
C20_ReencodeSizeIsFirstFrameOfProducingBackend ==
    (options.mode = "reencode") =>
        /\ (bpc = "await" /\ ppc = "returned") =>
              <<ret.width, ret.height>> = DecodedSize(ret, idx)
        /\ \A k \in 1..Len(results) :
              <<results[k].width, results[k].height>>
                 = DecodedSize(results[k], results[k].originalFile)

\* A ProcessedImage made by the canvas fallback has been returned with the
\* bitmap's size, after the WebCodecs attempt had decoded a frame of another
\* size and failed; the file before it, of several frames, came out of the
\* WebCodecs backend.
C20_Witness ==
    /\ options.mode = "reencode" /\ bpc = "await" /\ ppc = "returned"
    /\ ret.processedBlob.by = "canvas"
    /\ Len(attempts) = 2 /\ attempts[1].width > 0
    /\ attempts[1].width # ret.width
    /\ Len(results) = 1
    /\ results[1].processedBlob.by = "wasm"
    /\ Len(files[1].frames) > 1

\* The index of the last "." of a name (0-based), -1 when it has none,
\* found by scanning from the end.
RECURSIVE LastDotFrom(_, _)
LastDotFrom(name, k) ==
    IF k = 0 THEN -1
    ELSE IF name[k] = "." THEN k - 1
    ELSE LastDotFrom(name, k - 1)

\* The suggested name the naming rule gives a file whose name holds a
\* dot: the name up to its last dot, "_clean.", and the extension, which is
\* the original one as it was in Strip mode and the one of the target format
\* in Reencode mode.
ExpectedFileName(name, opts) ==
    LET dot == LastDotFrom(name, Len(name))
        ext == IF opts.mode = "strip" THEN SubSeq(name, dot + 2, Len(name))
               ELSE IF opts.format = "image/jpeg" THEN <<"j", "p", "g">>
               ELSE IF opts.format = "image/webp" THEN <<"w", "e", "b", "p">>
               ELSE <<"p", "n", "g">>
    IN  SubSeq(name, 1, dot) \o <<"_", "c", "l", "e", "a", "n", ".">> \o ext

\* C21: the suggested file name of every ProcessedImage whose original
\* name holds a dot is <base>_clean.<ext>, with <base> the original name up
\* to its last dot and <ext> the original extension as it was in Strip mode,
\* and jpg, webp or png after the target format in Reencode mode.
C21_FileNameIsBaseCleanExt ==
    \A k \in 1..Len(results) :
        LET name == files[results[k].originalFile + 1].name
        IN  LastDotFrom(name, Len(name)) >= 0
               => results[k].fileName = ExpectedFileName(name, options)

\* What Strip mode makes of file number n: the stripped bytes, both digests
\* and the size of the stripped bytes, from the file alone.
StripResultOf(n) ==
    LET file == files[n + 1]
        stripper == StripperFor(file.type)
        bytes == Blob(n, stripper, StrippedType(stripper))
    IN  [processedBlob |-> bytes,
         originalHash |-> generateHash(Blob(n, "file", file.type)),
         processedHash |-> generateHash(bytes),
         width |-> file.stripped[1], height |-> file.stripped[2]]

\* C23: in Strip mode the result of a file does not depend on options.format,
\* options.quality or options.lossless: whatever these three are, the result
\* bytes, digests and dimensions are those determined by the file alone, and
\* the suggested file name is the one every other Strip configuration gives.
C23_StripIgnoresFormatQualityLossless ==
    options.mode = "strip" =>
        \A k \in 1..Len(results) :
            LET r == results[k]
            IN  /\ [processedBlob |-> r.processedBlob, originalHash |-> r.originalHash,
                     processedHash |-> r.processedHash, width |-> r.width,
                     height |-> r.height] = StripResultOf(r.originalFile)
                /\ \A o \in ProcessingOptions :
                       o.mode = "strip" =>
                           r.fileName = generateCleanFileName(files[r.originalFile + 1].name, o)

\* C23 witness: a JPEG was stripped under a configuration that names WebP,
\* quality 0.95 and lossless as the target.
C23_Witness ==
    /\ options = [mode |-> "strip", format |-> "image/webp", quality |-> DEFAULT_QUALITY,
                  lossless |-> TRUE]
    /\ Len(results) = 1
    /\ files[results[1].originalFile + 1].type = "image/jpeg"

\* C24: when stripWebpMetadata has returned, re-parsing its output from
\* offset 12 yields exactly the chunks it kept, each whole (8-byte header,
\* its data bytes, and the pad byte when its size is odd) and with the bytes
\* it has in the input, and the parse ends exactly at the end of the output.
C24_WebpOutputChunksComplete ==
    (fmt = "webp" /\ Returned) =>
        LET walk == WebpWalk(output, 12)
            kept == SelectSeq(segs, LAMBDA s : s.kept)
        IN  /\ walk.rest = Len(output)
            /\ Len(walk.chunks) = Len(kept)
            /\ \A k \in 1..Len(kept) :
                   /\ walk.chunks[k].type = kept[k].marker
                   /\ walk.chunks[k].end - walk.chunks[k].at = kept[k].end - kept[k].at
                   /\ Slice(output, walk.chunks[k].at, walk.chunks[k].end)
                          = Slice(data, kept[k].at, kept[k].end)

\* C25: in Reencode mode every request of the canvas encoder that gave a
\* backend its blob carries the configured format and quality, and carries the lossless flag
\* too: the configuration that differs from the present one only in lossless
\* would have made a different request.
C25_EncoderReceivesFormatQualityLossless ==
    options.mode = "reencode" =>
        \A k \in 1..Len(attempts) :
            attempts[k].request # NoRequest =>
                /\ attempts[k].request.type = options.format
                /\ attempts[k].request.quality = options.quality
                /\ encodeToBlob([options EXCEPT !.lossless = ~options.lossless])
                       # attempts[k].request

\* How many times process() of a backend has been called for the file in
\* flight: the calls that have ended and the one that is running.
Invocations(backend) ==
    Cardinality({k \in 1..Len(attempts) : attempts[k].backend = backend})
        + (IF ppc \in (IF backend = "wasm" THEN WasmPositions ELSE CanvasPositions)
           THEN 1 ELSE 0)

\* C26: in Reencode mode, whatever the browser supports and whichever steps
\* fail, processImage calls WasmProcessor.process at most once and
\* CanvasProcessor.process at most once for a file.
C26_EachBackendAtMostOnce ==
    (bpc = "await" /\ options.mode = "reencode") =>
        Invocations("wasm") <= 1 /\ Invocations("canvas") <= 1

\* The cursor part of the main loop's condition, and the loop's condition.
CursorInData ==
    IF fmt = "jpeg" THEN i < Len(data) - 1
    ELSE IF fmt = "png" THEN i + 12 <= Len(data)
    ELSE i + 8 <= Len(data)
LoopCond ==
    IF fmt = "jpeg" THEN JpegLoopCond ELSE IF fmt = "png" THEN PngLoopCond ELSE WebpLoopCond

\* maxIterations as the claim gives it.
IterationCap ==
    IF fmt = "jpeg" THEN Len(data)
    ELSE IF fmt = "png" THEN CeilDiv(Len(data), 12)
    ELSE CeilDiv(Len(data), 8)

\* At the head of the main loop: when the loop's condition fails, or the
\* iteration count has reached the cap, the cursor has reached the end.
CapNeverEndsLoop ==
    (pc = "loop") =>
        /\ ~LoopCond => ~CursorInData
        /\ iter >= IterationCap => ~CursorInData

\* An iteration of the main loop that is counted moves the cursor forward.
CursorAdvances == (pc = "loop" /\ iter' # iter) => i' > i

\* C27: in each stripper the iteration cap is never the reason the main loop
\* exits: every counted iteration moves the cursor forward, and whenever the
\* loop's condition fails at the head of the loop the cursor has reached the
\* end of the data (the other exits are the explicit breaks).
C27_IterationCapNeverBinds == [](CapNeverEndsLoop) /\ [][CursorAdvances]_vars

\* C27 witness: the PNG loop has left through its condition after as many
\* iterations as the input has chunks, three of them.
C27_Witness ==
    /\ fmt = "png" /\ pc = "loop" /\ ~PngLoopCond
    /\ iter = Len(segs) /\ iter >= 3

\* The markers of the length-prefixed segments of a well-formed JPEG that
\* come before its SOS segment.
RECURSIVE JpegMarkersBeforeScan(_, _)
JpegMarkersBeforeScan(d, p) ==
    IF p + 4 > Len(d) \/ At(d, p + 1) = 218 THEN {}
    ELSE {At(d, p + 1)} \cup JpegMarkersBeforeScan(d, p + 2 + U16At(d, p + 2))

\* A well-formed PNG of allow-listed chunks: the signature, then whole
\* chunks up to the end, IEND the last of them and nowhere else.
PngIsClean(d) ==
    /\ Len(d) >= 8 /\ SubSeq(d, 1, 8) = <<137, 80, 78, 71, 13, 10, 26, 10>>
    /\ LET walk == PngWalk(d, 8)
       IN  /\ walk.rest = Len(d)
           /\ walk.chunks # <<>>
           /\ \A k \in 1..Len(walk.chunks) :
                  /\ walk.chunks[k].type \in PngAllowList
                  /\ (walk.chunks[k].type = <<73, 69, 78, 68>>) <=> (k = Len(walk.chunks))

\* A well-formed WebP of allow-listed chunks: "RIFF", the size length - 8,
\* "WEBP", then whole chunks, each odd one with its pad byte, up to the end.
WebpIsClean(d) ==
    /\ Len(d) >= 12
    /\ SubSeq(d, 1, 4) = <<82, 73, 70, 70>> /\ SubSeq(d, 9, 12) = <<87, 69, 66, 80>>
    /\ U32LEAt(d, 4) = Len(d) - 8
    /\ LET walk == WebpWalk(d, 12)
       IN  /\ walk.rest = Len(d)
           /\ \A k \in 1..Len(walk.chunks) : walk.chunks[k].type \in WebpAllowList

\* A clean JPEG as the claim describes it: well-formed, no COM and no
\* APP1..APP15 segment.
JpegIsCleanAsClaimed(d) ==
    /\ JpegIsWellFormed(d)
    /\ \A m \in JpegMarkersBeforeScan(d, 2) : m # 254 /\ ~(m >= 225 /\ m <= 239)

\* A clean JPEG: as claimed, and every APP0 segment carries the JFIF signature.
JpegIsClean(d) ==
    /\ JpegIsWellFormed(d)
    /\ JpegWalk(d, 2).removed = 0

\* C28 as stated: a clean, well-formed file (JPEG: SOI, contiguous segments
\* none of which is COM or APP1..APP15, SOS, scan data, EOI; PNG: signature
\* and allow-listed chunks ending with IEND; WebP: right RIFF size and
\* allow-listed, padded chunks; nothing trailing) is returned byte for byte.
C28_CleanFilePassesUnchanged ==
    (Returned /\ (IF fmt = "jpeg" THEN JpegIsCleanAsClaimed(data)
                  ELSE IF fmt = "png" THEN PngIsClean(data) ELSE WebpIsClean(data))) =>
        output = data

\* C28 amended: the same, where a clean JPEG moreover has no APP0 segment
\* without the JFIF signature: such a file is returned byte for byte, so the
\* digests taken of the file and of the result are equal.
C28_CleanFilePassesUnchangedAmended ==
    (Returned /\ (IF fmt = "jpeg" THEN JpegIsClean(data)
                  ELSE IF fmt = "png" THEN PngIsClean(data) ELSE WebpIsClean(data))) =>
        output = data

\* C28 witness: the strip of the clean JPEG with a JFIF APP0, DQT, SOF0, DHT
\* and a scan has returned.
C28_Witness ==
    /\ fmt = "jpeg" /\ Returned /\ pass = 1
    /\ data = JpegClean /\ JpegIsClean(data)

\* C29: in Strip mode processImage returns a ProcessedImage only if the
\* stripped bytes decode: once the strip has succeeded the stripped blob is
\* decoded once for its size; when that decode fails the call raises with no
\* ProcessedImage and no digest of the result; and the width and height of
\* every result are those of the stripped bytes, not those of the file.
C29_StripResultNeedsDecodableOutput ==
    options.mode = "strip" =>
        /\ (bpc = "await") =>
              /\ (ppc = "probe") =>
                    /\ stages = <<"hash(original)", "strip">>
                    /\ loc.processedBlob.by = StripperFor(File.type)
                    /\ Res("ImageBitmap", "probe") \notin acquired
              /\ (ppc \in {"hash2", "returned"}) =>
                    /\ SubSeq(stages, 1, 3) = <<"hash(original)", "strip", "dimensions">>
                    /\ Res("ImageBitmap", "probe") \in acquired
                    /\ <<loc.width, loc.height>> = File.stripped
              /\ (ppc = "raised" /\ stages = <<"hash(original)", "strip">>) =>
                    /\ ret = NoImage
                    /\ loc.processedHash = NoHash
                    /\ ~outcomes[Len(outcomes)].ok
              /\ (ret # NoImage) => <<ret.width, ret.height>> = File.stripped
        /\ \A k \in 1..Len(results) :
               <<results[k].width, results[k].height>>
                   = files[results[k].originalFile + 1].stripped
        /\ \A n \in 1..Len(outcomes) :
               ~outcomes[n].ok =>
                   \A k \in 1..Len(results) : results[k].originalFile # outcomes[n].file

\* C29 witness: a JPEG whose bitmap is 50 x 100 and whose stripped bytes
\* decode to 100 x 50 has been returned in Strip mode with width 100 and
\* height 50.
C29_Witness ==
    /\ options.mode = "strip" /\ bpc = "await" /\ ppc = "returned"
    /\ File.bitmap = <<50, 100>>
    /\ ret.width = 100 /\ ret.height = 50

\* C30: in the home page every entry of processedImages was produced from a
\* file that is in the current files list, whatever the user does while a
\* run is in flight; in particular processedImages is empty whenever the
\* files list is.
C30_ResultsBelongToSelection ==
    \A k \in 1..Len(processedImages) :
        \E n \in 1..Len(pageFiles) : pageFiles[n] = processedImages[k].originalFile
====
